---------------------------- MODULE Spec2Model ----------------------------
(***************************************************************************)
(* A model of the record-reconciliation code of umkmall_analytics:         *)
(*   - ingestion/lib/data_cleaning.py: normalizers, composite key and the  *)
(*     two deduplication modes;                                            *)
(*   - old_pipeline/src/transforms/intermediate.py: union layer, merge     *)
(*     layer, pairwise merge and conflict resolution;                      *)
(*   - old_pipeline/main.py: the layer executor.                           *)
(* Text values of the deduplicator are sequences of one-character strings, *)
(* so that trimming, lowercasing, prefix stripping and key concatenation   *)
(* are computed character by character as the code computes them.          *)
(***************************************************************************)
EXTENDS Integers, Sequences, FiniteSets, TLC

(***************************************************************************)
(* Bounds of the model.                                                    *)
(***************************************************************************)
MaxRows == 3

MaxSide == 2

MaxStaged == 2

MaxLayers == 2

(***************************************************************************)
(* Characters and text.                                                    *)
(***************************************************************************)
\* pandas' missing value (None / NaN) for a text cell: no text equals it.
Null == <<"NULL">>

\* pd.isna / pd.notna on one cell.
IsNa(v) == v = Null

NotNa(v) == v # Null

Digits == {"0", "1", "2", "3", "4", "5", "6", "7", "8", "9"}

\* The characters of the model in ASCII order (str comparison, str.lower()).
Ascii == <<" ", "(", ")", "+", "-", ".", "0", "1", "2", "3", "4", "5", "6", "7",
           "8", "9", "@", "A", "X", "Y", "a", "b", "c", "x", "y", "|">>

CharRank(c) == CHOOSE i \in 1..Len(Ascii) : Ascii[i] = c

LowerChar(c) == CASE c = "A" -> "a" [] c = "X" -> "x" [] c = "Y" -> "y" [] OTHER -> c

\* str.lower()
Lower(s) == [i \in 1..Len(s) |-> LowerChar(s[i])]

RECURSIVE LStrip(_)
LStrip(s) == IF s # <<>> /\ Head(s) = " " THEN LStrip(Tail(s)) ELSE s

RECURSIVE RStrip(_)
RStrip(s) == IF s # <<>> /\ s[Len(s)] = " " THEN RStrip(SubSeq(s, 1, Len(s) - 1)) ELSE s

\* str.strip()
Strip(s) == RStrip(LStrip(s))

\* re.sub(<class>, '', s): the characters of s outside `drop`, in order.
RECURSIVE RemoveChars(_, _)
RemoveChars(s, drop) ==
    IF s = <<>> THEN <<>>
    ELSE IF Head(s) \in drop THEN RemoveChars(Tail(s), drop)
    ELSE <<Head(s)>> \o RemoveChars(Tail(s), drop)

\* re.sub(r'[^..]', '', s): the characters of s inside `keepSet`, in order.
RECURSIVE KeepChars(_, _)
KeepChars(s, keepSet) ==
    IF s = <<>> THEN <<>>
    ELSE IF Head(s) \in keepSet THEN <<Head(s)>> \o KeepChars(Tail(s), keepSet)
    ELSE KeepChars(Tail(s), keepSet)

\* str.startswith
StartsWith(s, p) == Len(s) >= Len(p) /\ SubSeq(s, 1, Len(p)) = p

\* s[n:]
DropPrefix(s, n) == SubSeq(s, n + 1, Len(s))

\* str.isdigit(): non-empty and all digits.
IsDigitStr(s) == s # <<>> /\ \A i \in 1..Len(s) : s[i] \in Digits

\* c in s
HasChar(s, c) == \E i \in 1..Len(s) : s[i] = c

\* s.split('@')[1]: the text between the first '@' and the next one (or the end).
AfterFirstAt(s) ==
    LET i == CHOOSE k \in 1..Len(s) : s[k] = "@" /\ \A m \in 1..(k - 1) : s[m] # "@"
        rest == SubSeq(s, i + 1, Len(s))
        ats == {k \in 1..Len(rest) : rest[k] = "@"}
    IN  IF ats = {} THEN rest
        ELSE SubSeq(rest, 1, (CHOOSE k \in ats : \A m \in ats : k <= m) - 1)

\* Python's str < str: lexicographic on character codes.
RECURSIVE StrLess(_, _)
StrLess(s, t) ==
    IF t = <<>> THEN FALSE
    ELSE IF s = <<>> THEN TRUE
    ELSE IF Head(s) = Head(t) THEN StrLess(Tail(s), Tail(t))
    ELSE CharRank(Head(s)) < CharRank(Head(t))

(***************************************************************************)
(* Record Normalizer (data_cleaning.py).                                   *)
(***************************************************************************)
MinPhoneDigits == 9

MaxPhoneDigits == 12

PhonePunct == {" ", "-", "(", ")", "."}

\* A phone normalizer that also strips a leading 0 after a country prefix.
normalize_phone_number_MutTwoPrefixes(phone) ==
    IF IsNa(phone) \/ phone = <<>> THEN Null
    ELSE LET s1 == RemoveChars(Strip(phone), PhonePunct)
             s2 == KeepChars(s1, Digits \cup {"+"})
             s3 == IF StartsWith(s2, <<"+", "6", "2">>) THEN DropPrefix(s2, 3)
                   ELSE IF StartsWith(s2, <<"6", "2">>) THEN DropPrefix(s2, 2)
                   ELSE s2
             s4 == IF StartsWith(s3, <<"0">>) THEN DropPrefix(s3, 1) ELSE s3
         IN  IF ~IsDigitStr(s4) \/ Len(s4) < MinPhoneDigits \/ Len(s4) > MaxPhoneDigits
             THEN Null
             ELSE <<"+", "6", "2">> \o s4

normalize_phone_number(phone) ==
    IF IsNa(phone) \/ phone = <<>> THEN Null
    ELSE LET s1 == RemoveChars(Strip(phone), PhonePunct)
             s2 == KeepChars(s1, Digits \cup {"+"})
             s3 == IF StartsWith(s2, <<"+", "6", "2">>) THEN DropPrefix(s2, 3)
                   ELSE IF StartsWith(s2, <<"6", "2">>) THEN DropPrefix(s2, 2)
                   ELSE IF StartsWith(s2, <<"0">>) THEN DropPrefix(s2, 1)
                   ELSE s2
         IN  IF ~IsDigitStr(s3) \/ Len(s3) < MinPhoneDigits \/ Len(s3) > MaxPhoneDigits
             THEN Null
             ELSE <<"+", "6", "2">> \o s3

normalize_email(email) ==
    IF IsNa(email) \/ email = <<>> THEN Null
    ELSE LET s == Lower(Strip(email))
         IN  IF ~HasChar(s, "@") \/ ~HasChar(AfterFirstAt(s), ".") THEN Null
             ELSE s

(***************************************************************************)
(* Composite Key Builder.                                                  *)
(***************************************************************************)
\* A key builder that lets the email alone decide when there is one.
create_composite_key_MutEmailFirst(email, phone) ==
    IF NotNa(email) THEN email \o <<"|">>
    ELSE IF NotNa(phone) THEN <<"|">> \o phone
    ELSE Null

\* A key builder that leaves the separator out of the partial keys.
create_composite_key_MutBareSingle(email, phone) ==
    IF NotNa(email) /\ NotNa(phone) THEN email \o <<"|">> \o phone
    ELSE IF NotNa(email) THEN email
    ELSE IF NotNa(phone) THEN phone
    ELSE Null

create_composite_key(email, phone) ==
    IF NotNa(email) /\ NotNa(phone) THEN email \o <<"|">> \o phone
    ELSE IF NotNa(email) THEN email \o <<"|">>
    ELSE IF NotNa(phone) THEN <<"|">> \o phone
    ELSE Null

(***************************************************************************)
(* Tables of the deduplicator.  A table is [cols, rows]; a row carries     *)
(* the pandas index label (idx) and one field per column the model knows,  *)
(* a column absent from cols holding its blank value.                      *)
(***************************************************************************)
\* The count groupby(...).transform('count') leaves on a row whose key is
\* missing: NaN (groupby drops missing keys).  A real count is at least 1.
NaNCount == 0

RawEmails == { Null,
               <<"A", "@", "x", ".", "c">>,
               <<"a", "@", "x", ".", "c", " ">> }

RawPhones == { Null,
               <<"0", "8", "1", "2", "-", "3", "4", "5", "6", "7", "8">>,
               <<"0", "8", "1">> }

Notes == { Null, <<"b">>, <<"c">> }

KeepModes == {"first", "last"}

BlankRow(i) ==
    [idx |-> i, email |-> Null, phone_number |-> Null, note |-> Null,
     email_normalized |-> Null, phone_number_normalized |-> Null,
     duplicate_count |-> NaNCount, is_duplicate |-> FALSE]

\* An input table: the optional email and phone_number columns and a note
\* column, rows given by f (a triple per row), index labels 0..n-1 (a fresh
\* RangeIndex).
InputTable(cs, n, f) ==
    [cols |-> cs \cup {"note"},
     rows |-> [i \in 1..n |-> [BlankRow(i - 1) EXCEPT !.email = f[i][1],
                                                      !.phone_number = f[i][2],
                                                      !.note = f[i][3]]]]

\* The values a row of a table with the columns cs can hold.
RowValues(cs) ==
    (IF "email" \in cs THEN RawEmails ELSE {Null})
    \X (IF "phone_number" \in cs THEN RawPhones ELSE {Null})
    \X Notes

EmptyTable == [cols |-> {}, rows |-> <<>>]

\* df.empty
IsEmpty(T) == T.rows = <<>> \/ T.cols = {}

\* Series.apply(normalize_email) and Series.apply(normalize_phone_number):
\* the normalizer applied to each value a column of the model can hold.
EmailApply == [e \in RawEmails |-> normalize_email(e)]

PhoneApply == [p \in RawPhones |-> normalize_phone_number(p)]

\* df[email_col].apply(normalize_email), or None when the column is absent.
EmailNormalized(T, r) ==
    IF "email" \in T.cols THEN EmailApply[r.email] ELSE Null

PhoneNormalized(T, r) ==
    IF "phone_number" \in T.cols THEN PhoneApply[r.phone_number] ELSE Null

\* The _composite_key column of row r of T.
CompositeKey(T, r) == create_composite_key(EmailNormalized(T, r), PhoneNormalized(T, r))

\* The rows of a sequence at the positions of `keepSet`, in order.
RECURSIVE SelectRows(_, _, _)
SelectRows(rows, keepSet, i) ==
    IF i > Len(rows) THEN <<>>
    ELSE (IF i \in keepSet THEN <<rows[i]>> ELSE <<>>) \o SelectRows(rows, keepSet, i + 1)

\* A drop_duplicates that removes only one extra occurrence of a key per call.
DropDuplicatesMutOnePerPass(keys, keep) ==
    {i \in 1..Len(keys) :
        IF keep = "first"
        THEN Cardinality({j \in 1..(i - 1) : keys[j] = keys[i]}) # 1
        ELSE Cardinality({j \in (i + 1)..Len(keys) : keys[j] = keys[i]}) # 1}

\* A drop_duplicates that keeps the last occurrence for 'first' and the first
\* for 'last'.
DropDuplicatesMutKeepSwapped(keys, keep) ==
    {i \in 1..Len(keys) :
        IF keep = "first"
        THEN ~(\E j \in (i + 1)..Len(keys) : keys[j] = keys[i])
        ELSE ~(\E j \in 1..(i - 1) : keys[j] = keys[i])}

\* DataFrame.drop_duplicates(subset=[key], keep=keep) on the key sequence:
\* the positions kept.  pandas compares missing keys as equal to each other.
DropDuplicates(keys, keep) ==
    {i \in 1..Len(keys) :
        IF keep = "first"
        THEN ~(\E j \in 1..(i - 1) : keys[j] = keys[i])
        ELSE ~(\E j \in (i + 1)..Len(keys) : keys[j] = keys[i])}

\* groupby('_composite_key')['_composite_key'].transform('count') for row i.
DuplicateCount(keys, i) ==
    IF IsNa(keys[i]) THEN NaNCount
    ELSE Cardinality({j \in 1..Len(keys) : keys[j] = keys[i]})

\* Drop mode.
deduplicate_by_composite_key(T, keep, add_duplicate_info) ==
    IF IsEmpty(T) THEN T
    ELSE LET keys == [i \in 1..Len(T.rows) |-> CompositeKey(T, T.rows[i])]
             annotated ==
                 [i \in 1..Len(T.rows) |->
                    LET r == [T.rows[i] EXCEPT
                                !.email_normalized = EmailNormalized(T, T.rows[i]),
                                !.phone_number_normalized = PhoneNormalized(T, T.rows[i])]
                    IN  IF add_duplicate_info
                        THEN [r EXCEPT !.duplicate_count = DuplicateCount(keys, i),
                                       !.is_duplicate = DuplicateCount(keys, i) > 1]
                        ELSE r]
         IN  [cols |-> T.cols \cup {"email_normalized", "phone_number_normalized"}
                        \cup (IF add_duplicate_info
                              THEN {"duplicate_count", "is_duplicate"} ELSE {}),
              rows |-> SelectRows(annotated, DropDuplicates(keys, keep), 1)]

\* The distinct keys of a set in ascending order (groupby sorts its groups).
RECURSIVE SortKeys(_)
SortKeys(S) ==
    IF S = {} THEN <<>>
    ELSE LET m == CHOOSE x \in S : \A y \in S \ {x} : StrLess(x, y)
         IN  <<m>> \o SortKeys(S \ {m})

\* A fill that takes the last non-missing value of the group.
FirstNonNullMutLast(rows, members, col) ==
    LET have == {i \in members : NotNa(rows[i][col])}
    IN  IF have = {} THEN Null
        ELSE rows[CHOOSE i \in have : \A j \in have : i >= j][col]

\* group[col].dropna().iloc[0]: the first non-missing value of a text column
\* among the rows at `members` (ascending positions), Null when there is none.
FirstNonNull(rows, members, col) ==
    LET have == {i \in members : NotNa(rows[i][col])}
    IN  IF have = {} THEN Null
        ELSE rows[CHOOSE i \in have : \A j \in have : i <= j][col]

\* merge_group: one row for the rows at `members`, which share a key.
merge_group(rows, members, merge_cols, keep) ==
    LET first == CHOOSE i \in members : \A j \in members : i <= j
        last == CHOOSE i \in members : \A j \in members : i >= j
        base == IF keep = "first" THEN rows[first] ELSE rows[last]
        fill(col) == IF col \in merge_cols /\ IsNa(base[col])
                     THEN FirstNonNull(rows, members, col) ELSE base[col]
        counts == {rows[i].duplicate_count : i \in members} \ {NaNCount}
    IN  IF Cardinality(members) = 1 THEN base
        ELSE [base EXCEPT
                !.email = fill("email"),
                !.phone_number = fill("phone_number"),
                !.note = fill("note"),
                !.duplicate_count =
                    IF "duplicate_count" \in merge_cols /\ base.duplicate_count = NaNCount
                       /\ counts # {}
                    THEN rows[CHOOSE i \in members :
                                /\ rows[i].duplicate_count # NaNCount
                                /\ \A j \in members :
                                     rows[j].duplicate_count # NaNCount => i <= j].duplicate_count
                    ELSE base.duplicate_count]

\* Merge mode: the table returned.  groupby leaves out the rows whose key is
\* missing, yields one row per key in ascending key order, and the result
\* gets a fresh index.
deduplicate_with_merge_strategy(T, keep) ==
    IF IsEmpty(T) THEN T
    ELSE LET withNorm ==
                 [i \in 1..Len(T.rows) |->
                    [T.rows[i] EXCEPT
                       !.email_normalized = EmailNormalized(T, T.rows[i]),
                       !.phone_number_normalized = PhoneNormalized(T, T.rows[i])]]
             keys == [i \in 1..Len(T.rows) |-> CompositeKey(T, T.rows[i])]
             groups == SortKeys({keys[i] : i \in 1..Len(keys)} \ {Null})
             merge_cols == T.cols \ {"email_normalized", "phone_number_normalized"}
         IN  [cols |-> T.cols \cup {"email_normalized", "phone_number_normalized"},
              rows |-> [g \in 1..Len(groups) |->
                          [merge_group(withNorm,
                                       {i \in 1..Len(keys) : keys[i] = groups[g]},
                                       merge_cols, keep)
                             EXCEPT !.idx = g - 1]]]

\* Whether the merge-mode call can end in an exception instead of a table:
\* with no group at all, groupby(...).apply returns a frame whose columns
\* depend on the pandas release, and drop(columns=['_composite_key']) raises
\* KeyError on the releases that return it without columns.
MergeModeMayRaise(T) ==
    ~IsEmpty(T) /\ \A i \in 1..Len(T.rows) : IsNa(CompositeKey(T, T.rows[i]))

(***************************************************************************)
(* Conflict Resolver (intermediate.py, _resolve_conflict) on one matched   *)
(* row: the left and the right cell of one column.                         *)
(***************************************************************************)
Strategies == {"first", "last", "prefer_source", "concat", "max", "min", "custom"}

\* ConflictResolution.separator's default, ' | '.
DefaultSeparator == <<" ", "|", " ">>

\* The callables the model passes as custom_fn ("None": no callable given).
CustomFns == {"None", "take_right", "raises"}

\* A ConflictResolution.
Resolution(strategy, prefer_source, custom_fn) ==
    [strategy |-> strategy, prefer_source |-> prefer_source,
     separator |-> DefaultSeparator, custom_fn |-> custom_fn]

\* A cell that holds a number is the mark "#" followed by its decimal
\* digits; any other non-missing cell is a text.
IsNumber(v) == v # <<>> /\ Head(v) = "#"

\* str(value): a text is itself, a number its decimal digits.
Str(v) == IF IsNumber(v) THEN Tail(v) ELSE v

\* A concatenation that puts the right value first.
ResolveConcatMutRightFirst(l, r, separator) ==
    IF IsNa(l) /\ IsNa(r) THEN Null
    ELSE IF IsNa(l) THEN Str(r)
    ELSE IF IsNa(r) THEN Str(l)
    ELSE IF Str(l) = Str(r) THEN Str(l)
    ELSE Str(r) \o separator \o Str(l)

\* A 'last' that forgets the fillna.
ResolveLastMutNoFill(l, r) == r

\* left_series.fillna(right_series)
ResolveFirst(l, r) == IF NotNa(l) THEN l ELSE r

\* right_series.fillna(left_series)
ResolveLast(l, r) == IF NotNa(r) THEN r ELSE l

\* concat_values
ResolveConcat(l, r, separator) ==
    IF IsNa(l) /\ IsNa(r) THEN Null
    ELSE IF IsNa(l) THEN Str(r)
    ELSE IF IsNa(r) THEN Str(l)
    ELSE IF Str(l) = Str(r) THEN Str(l)
    ELSE Str(l) \o separator \o Str(r)

\* max(l, r) / min(l, r) when both are present, else the one that is.
ResolveMax(l, r) ==
    IF NotNa(l) /\ NotNa(r) THEN (IF StrLess(l, r) THEN r ELSE l)
    ELSE IF NotNa(l) THEN l ELSE r

ResolveMin(l, r) ==
    IF NotNa(l) /\ NotNa(r) THEN (IF StrLess(r, l) THEN r ELSE l)
    ELSE IF NotNa(l) THEN l ELSE r

\* Whether _resolve_conflict raises for this resolution.
ResolveRaises(resolution) ==
    \/ resolution.strategy \notin Strategies
    \/ resolution.strategy = "custom" /\ resolution.custom_fn \in {"None", "raises"}

\* Whether max(l, r) / min(l, r) raises TypeError: a text compared with a
\* number.
CompareRaises(l, r, resolution) ==
    /\ resolution.strategy \in {"max", "min"}
    /\ NotNa(l)
    /\ NotNa(r)
    /\ IsNumber(l) # IsNumber(r)

\* The resolved cell (when _resolve_conflict does not raise).
resolve_conflict(l, r, resolution) ==
    CASE resolution.strategy = "first" -> ResolveFirst(l, r)
      [] resolution.strategy = "last" -> ResolveLast(l, r)
      [] resolution.strategy = "prefer_source" -> ResolveFirst(l, r)
      [] resolution.strategy = "concat" -> ResolveConcat(l, r, resolution.separator)
      [] resolution.strategy = "max" -> ResolveMax(l, r)
      [] resolution.strategy = "min" -> ResolveMin(l, r)
      [] resolution.strategy = "custom" /\ resolution.custom_fn = "take_right" -> r
      [] OTHER -> Null

\* The values of a cell in the layer tables.
CellValues == {Null, <<"x">>, <<"y">>, <<"X">>, <<"Y">>, <<"1">>, <<"#", "1">>}

\* The names of the two sources of a merge step: the left side is the
\* source declared first.
LeftSource == "A"

RightSource == "B"

\* The resolutions a layer can declare for a column.
Resolutions ==
    {Resolution(st, LeftSource, "None") : st \in (Strategies \cup {"newest"}) \ {"custom"}}
    \cup {Resolution("prefer_source", RightSource, "None")}
    \cup {Resolution("custom", LeftSource, fn) : fn \in CustomFns}
    \cup {[Resolution("concat", LeftSource, "None") EXCEPT !.separator = <<"-">>]}

(***************************************************************************)
(* Layer tables (intermediate.py).  A table is [cols, rows], a row a       *)
(* function from the table's column names to cells.                        *)
(***************************************************************************)
NoFrame == [cols |-> {}, rows |-> <<>>]

\* The values of a merge-key cell.
KeyValues == {Null, <<"a">>, <<"b">>}

\* The merge-key tuple of a row.
KeyOf(row, merge_keys) == [n \in 1..Len(merge_keys) |-> row[merge_keys[n]]]

\* Order of two cells when pandas sorts join keys: text order, missing last.
CellLess(a, b) == NotNa(a) /\ (IsNa(b) \/ StrLess(a, b))

\* Lexicographic order of two key tuples of the same length.
RECURSIVE KeyLess(_, _)
KeyLess(a, b) ==
    IF a = <<>> THEN FALSE
    ELSE IF Head(a) = Head(b) THEN KeyLess(Tail(a), Tail(b))
    ELSE CellLess(Head(a), Head(b))

\* The key tuples of a set in ascending order.
RECURSIVE SortKeyTuples(_)
SortKeyTuples(S) ==
    IF S = {} THEN <<>>
    ELSE LET m == CHOOSE x \in S : \A y \in S \ {x} : KeyLess(x, y)
         IN  <<m>> \o SortKeyTuples(S \ {m})

\* The concatenation of the sequences f[lo], ..., f[hi].
RECURSIVE Flatten(_, _, _)
Flatten(f, lo, hi) == IF lo > hi THEN <<>> ELSE f[lo] \o Flatten(f, lo + 1, hi)

\* The elements of a set of positions in ascending order.
RECURSIVE Ascending(_)
Ascending(S) ==
    IF S = {} THEN <<>>
    ELSE LET m == CHOOSE x \in S : \A y \in S : x <= y
         IN  <<m>> \o Ascending(S \ {m})

\* An outer join whose right-only rows are lost.
JoinIndexersMutNoRightOnly(left, right, merge_keys, how) ==
    LET lk == [i \in 1..Len(left.rows) |-> KeyOf(left.rows[i], merge_keys)]
        rk == [j \in 1..Len(right.rows) |-> KeyOf(right.rows[j], merge_keys)]
    IN  Flatten([i \in 1..Len(lk) |->
                   LET m == Ascending({j \in 1..Len(rk) : rk[j] = lk[i]})
                   IN  IF m = <<>> /\ how \in {"left", "outer"} THEN <<<<i, 0>>>>
                       ELSE [n \in 1..Len(m) |-> <<i, m[n]>>]], 1, Len(lk))

\* pd.merge(left, right, on=merge_keys, how=how): the row pairs <<i, j>> of
\* the result in result order, 0 standing for "no row on that side".  Rows
\* match when their key tuples are equal (missing keys match each other).
\* Order, as pandas documents it: left and inner follow the left rows,
\* right follows the right rows, outer sorts by key.
JoinIndexers(left, right, merge_keys, how) ==
    LET lk == [i \in 1..Len(left.rows) |-> KeyOf(left.rows[i], merge_keys)]
        rk == [j \in 1..Len(right.rows) |-> KeyOf(right.rows[j], merge_keys)]
        lmatch(i) == Ascending({j \in 1..Len(rk) : rk[j] = lk[i]})
        rmatch(j) == Ascending({i \in 1..Len(lk) : lk[i] = rk[j]})
        fromLeft(i, pad) ==
            IF lmatch(i) = <<>> THEN (IF pad THEN <<<<i, 0>>>> ELSE <<>>)
            ELSE [n \in 1..Len(lmatch(i)) |-> <<i, lmatch(i)[n]>>]
        fromRight(j, pad) ==
            IF rmatch(j) = <<>> THEN (IF pad THEN <<<<0, j>>>> ELSE <<>>)
            ELSE [n \in 1..Len(rmatch(j)) |-> <<rmatch(j)[n], j>>]
        keys == SortKeyTuples({lk[i] : i \in 1..Len(lk)} \cup {rk[j] : j \in 1..Len(rk)})
        ofKey(k) ==
            Flatten([i \in 1..Len(lk) |-> IF lk[i] = k THEN fromLeft(i, TRUE) ELSE <<>>],
                    1, Len(lk))
            \o Flatten([j \in 1..Len(rk) |->
                          IF rk[j] = k /\ rmatch(j) = <<>> THEN <<<<0, j>>>> ELSE <<>>],
                       1, Len(rk))
    IN  CASE how = "inner" -> Flatten([i \in 1..Len(lk) |-> fromLeft(i, FALSE)], 1, Len(lk))
          [] how = "left" -> Flatten([i \in 1..Len(lk) |-> fromLeft(i, TRUE)], 1, Len(lk))
          [] how = "right" -> Flatten([j \in 1..Len(rk) |-> fromRight(j, TRUE)], 1, Len(rk))
          [] how = "outer" -> Flatten([n \in 1..Len(keys) |-> ofKey(keys[n])], 1, Len(keys))

\* f"{col}_left", f"{col}_right"
SideSuffixed(col, side) == col \o "_" \o side

\* pd.merge(left, right, on=merge_keys, how=how, suffixes=('_left', '_right')):
\* the merge keys once, every other column of each side, a column that both
\* sides have under its name suffixed with the side.
pd_merge(left, right, merge_keys, how) ==
    LET keyCols == {merge_keys[n] : n \in 1..Len(merge_keys)}
        overlapping == (left.cols \cap right.cols) \ keyCols
        lname(c) == IF c \in overlapping THEN SideSuffixed(c, "left") ELSE c
        rname(c) == IF c \in overlapping THEN SideSuffixed(c, "right") ELSE c
        lcols == {lname(c) : c \in left.cols \ keyCols}
        rcols == {rname(c) : c \in right.cols \ keyCols}
        pairs == JoinIndexers(left, right, merge_keys, how)
        cell(pair, d) ==
            IF d \in keyCols
            THEN (IF pair[1] # 0 THEN left.rows[pair[1]][d] ELSE right.rows[pair[2]][d])
            ELSE IF d \in lcols
            THEN (IF pair[1] = 0 THEN Null
                  ELSE left.rows[pair[1]][CHOOSE c \in left.cols \ keyCols : lname(c) = d])
            ELSE (IF pair[2] = 0 THEN Null
                  ELSE right.rows[pair[2]][CHOOSE c \in right.cols \ keyCols : rname(c) = d])
    IN  [cols |-> keyCols \cup lcols \cup rcols,
         rows |-> [n \in 1..Len(pairs) |->
                     [d \in keyCols \cup lcols \cup rcols |-> cell(pairs[n], d)]]]

\* A loop that resolves every overlapping column with `first`.
RECURSIVE ResolveOverlappingMutAlwaysFirst(_, _, _)
ResolveOverlappingMutAlwaysFirst(merged_df, overlapping, conflict_resolution) ==
    IF overlapping = {} THEN merged_df
    ELSE LET col == CHOOSE c \in overlapping : TRUE
             left_col == SideSuffixed(col, "left")
             right_col == SideSuffixed(col, "right")
             cols == (merged_df.cols \cup {col}) \ {left_col, right_col}
             next == [cols |-> cols,
                      rows |-> [n \in 1..Len(merged_df.rows) |->
                                  [c \in cols |->
                                      IF c = col
                                      THEN ResolveFirst(merged_df.rows[n][left_col],
                                                        merged_df.rows[n][right_col])
                                      ELSE merged_df.rows[n][c]]]]
         IN  ResolveOverlappingMutAlwaysFirst(next, overlapping \ {col}, conflict_resolution)

\* for col in overlapping: merged[col] = _resolve_conflict(merged[left_col],
\* merged[right_col], resolution); merged = merged.drop(columns=[left_col, right_col])
RECURSIVE ResolveOverlapping(_, _, _)
ResolveOverlapping(merged_df, overlapping, conflict_resolution) ==
    IF overlapping = {} THEN merged_df
    ELSE LET col == CHOOSE c \in overlapping : TRUE
             left_col == SideSuffixed(col, "left")
             right_col == SideSuffixed(col, "right")
             cols == (merged_df.cols \cup {col}) \ {left_col, right_col}
             next == [cols |-> cols,
                      rows |-> [n \in 1..Len(merged_df.rows) |->
                                  [c \in cols |->
                                      IF c = col
                                      THEN resolve_conflict(merged_df.rows[n][left_col],
                                                            merged_df.rows[n][right_col],
                                                            conflict_resolution[col])
                                      ELSE merged_df.rows[n][c]]]]
         IN  ResolveOverlapping(next, overlapping \ {col}, conflict_resolution)

\* The overlapping columns of a step: on both sides, outside the merge keys.
Overlapping(left, right, merge_keys) ==
    (left.cols \cap right.cols) \ {merge_keys[n] : n \in 1..Len(merge_keys)}

\* A concatenation that keeps only the columns every frame has.
ConcatTwoMutSharedColumns(left, right) ==
    LET cols == left.cols \cap right.cols
    IN  [cols |-> cols,
         rows |-> [i \in 1..Len(left.rows) |-> [c \in cols |-> left.rows[i][c]]]
                  \o [j \in 1..Len(right.rows) |-> [c \in cols |-> right.rows[j][c]]]]

\* pd.concat([left, right], ignore_index=True)
ConcatTwo(left, right) ==
    LET cols == left.cols \cup right.cols
        pad(T, r) == [c \in cols |-> IF c \in T.cols THEN r[c] ELSE Null]
    IN  [cols |-> cols,
         rows |-> [i \in 1..Len(left.rows) |-> pad(left, left.rows[i])]
                  \o [j \in 1..Len(right.rows) |-> pad(right, right.rows[j])]]

\* Whether a merge-key column is missing from a side.
MissingKeys(T, merge_keys) == \E n \in 1..Len(merge_keys) : merge_keys[n] \notin T.cols

\* Whether the step reaches pd.merge.
JoinRuns(left, right, merge_keys) ==
    /\ left.rows # <<>>
    /\ right.rows # <<>>
    /\ ~MissingKeys(left, merge_keys)
    /\ ~MissingKeys(right, merge_keys)

\* Whether _merge_two_dataframes raises: a joined step resolves every
\* overlapping column, and _resolve_conflict raises for some resolutions.
MergeTwoRaises(left, right, merge_keys, conflict_resolution) ==
    /\ JoinRuns(left, right, merge_keys)
    /\ \E c \in (left.cols \cap right.cols) \ {merge_keys[n] : n \in 1..Len(merge_keys)} :
          ResolveRaises(conflict_resolution[c])

\* The row pairs of the frame _merge_two_dataframes returns, in result order.
MergeTwoPairs(left, right, merge_keys, merge_type) ==
    LET lonly == [i \in 1..Len(left.rows) |-> <<i, 0>>]
        ronly == [j \in 1..Len(right.rows) |-> <<0, j>>]
    IN  IF left.rows = <<>> THEN ronly
        ELSE IF right.rows = <<>> THEN lonly
        ELSE IF MissingKeys(left, merge_keys) \/ MissingKeys(right, merge_keys)
             THEN (IF merge_type = "left" THEN lonly ELSE lonly \o ronly)
        ELSE JoinIndexers(left, right, merge_keys, merge_type)

\* A step that unions the two sides for every merge type when a key is missing.
merge_two_dataframes_MutLeftAlsoConcats(left, right, merge_keys, merge_type, conflict_resolution) ==
    IF left.rows = <<>> THEN right
    ELSE IF right.rows = <<>> THEN left
    ELSE IF MissingKeys(left, merge_keys) \/ MissingKeys(right, merge_keys)
         THEN ConcatTwo(left, right)
    ELSE ResolveOverlapping(pd_merge(left, right, merge_keys, merge_type),
                            Overlapping(left, right, merge_keys), conflict_resolution)

\* A step that looks for the merge keys before it looks for an empty side.
merge_two_dataframes_MutKeysCheckedFirst(left, right, merge_keys, merge_type, conflict_resolution) ==
    IF MissingKeys(left, merge_keys) \/ MissingKeys(right, merge_keys)
    THEN (IF merge_type = "left" THEN left ELSE ConcatTwo(left, right))
    ELSE IF left.rows = <<>> THEN right
    ELSE IF right.rows = <<>> THEN left
    ELSE ResolveOverlapping(pd_merge(left, right, merge_keys, merge_type),
                            Overlapping(left, right, merge_keys), conflict_resolution)

\* The frame _merge_two_dataframes returns (when it does not raise).
merge_two_dataframes(left, right, merge_keys, merge_type, conflict_resolution) ==
    IF left.rows = <<>> THEN right
    ELSE IF right.rows = <<>> THEN left
    ELSE IF MissingKeys(left, merge_keys) \/ MissingKeys(right, merge_keys)
         THEN (IF merge_type = "left" THEN left ELSE ConcatTwo(left, right))
    ELSE ResolveOverlapping(pd_merge(left, right, merge_keys, merge_type),
                            Overlapping(left, right, merge_keys), conflict_resolution)

(***************************************************************************)
(* Layer processors (intermediate.py) and the output step (marts.py).      *)
(* A layer is a record of its declaration (layers.py); the layers and the  *)
(* outputs of the model declare no transformations.                        *)
(***************************************************************************)
\* The names of a run: two staged sources and two layers.
StagedNames == <<"s1", "s2">>

Names == {"s1", "s2", "u", "m"}

MetadataName == "_field_metadata"

\* A name as the text of a cell.
SourceText(name) ==
    CASE name = "s1" -> <<"s", "1">>
      [] name = "s2" -> <<"s", "2">>
      [] name = "u" -> <<"u">>
      [] name = "m" -> <<"m">>

\* col.startswith('_')
InternalColumns == {"_source"}

IsInternal(col) == col \in InternalColumns

\* f"{col}_{source_name}"
Suffixed(col, source_name) == col \o "_" \o source_name

Columns ==
    {"k", "v", "w", "_source"} \cup {Suffixed(c, s) : c \in {"v", "w"}, s \in Names}

\* conflict_resolution.get(col, ConflictResolution(strategy='first')) for a
\* layer that declares `declared` for column v.
ConflictResolutionOf(declared) ==
    [c \in Columns |-> IF c = "v" THEN declared
                       ELSE Resolution("first", LeftSource, "None")]

UnionLayer(name, sources, add_source_column) ==
    [kind |-> "union", name |-> name, sources |-> sources,
     add_source_column |-> add_source_column]

MergeLayer(name, sources, merge_keys, merge_type, columns_to_merge, columns_to_keep_separate, conflict_resolution) ==
    [kind |-> "merge", name |-> name, sources |-> sources, merge_keys |-> merge_keys,
     merge_type |-> merge_type, columns_to_merge |-> columns_to_merge,
     columns_to_keep_separate |-> columns_to_keep_separate,
     conflict_resolution |-> conflict_resolution]

\* The declared sources that are in the namespace, in declaration order.
Found(sources, data) == SelectSeq(sources, LAMBDA s : s \in DOMAIN data)

\* The (layer, source) pairs of the "not found, skipping" warnings.
Skipped(layer, data) ==
    {<<layer.name, layer.sources[n]>> :
        n \in {i \in 1..Len(layer.sources) : layer.sources[i] \notin DOMAIN data}}

\* df['_source'] = source_name, when the layer tags and df has no such column.
TagSource(df, source_name, add_source_column) ==
    IF add_source_column /\ "_source" \notin df.cols
    THEN [cols |-> df.cols \cup {"_source"},
          rows |-> [i \in 1..Len(df.rows) |->
                      [c \in df.cols \cup {"_source"} |->
                          IF c = "_source" THEN SourceText(source_name)
                          ELSE df.rows[i][c]]]]
    ELSE df

\* pd.concat(dfs, ignore_index=True, sort=False)
RECURSIVE ConcatAll(_)
ConcatAll(dfs) ==
    IF Len(dfs) = 1 THEN dfs[1]
    ELSE ConcatTwo(ConcatAll(SubSeq(dfs, 1, Len(dfs) - 1)), dfs[Len(dfs)])

\* A union layer that stops looking at the first source it does not find.
process_union_layer_MutStopsAtMissing(layer, staged_data) ==
    LET missing == {n \in 1..Len(layer.sources) : layer.sources[n] \notin DOMAIN staged_data}
        upto == IF missing = {} THEN Len(layer.sources)
                ELSE (CHOOSE n \in missing : \A m \in missing : n <= m) - 1
        found == SubSeq(layer.sources, 1, upto)
        dfs_to_union == [n \in 1..Len(found) |->
                           TagSource(staged_data[found[n]], found[n],
                                     layer.add_source_column)]
    IN  IF dfs_to_union = <<>> THEN NoFrame ELSE ConcatAll(dfs_to_union)

process_union_layer(layer, staged_data) ==
    LET found == Found(layer.sources, staged_data)
        dfs_to_union == [n \in 1..Len(found) |->
                           TagSource(staged_data[found[n]], found[n],
                                     layer.add_source_column)]
    IN  IF dfs_to_union = <<>> THEN NoFrame ELSE ConcatAll(dfs_to_union)

\* A preparation that suffixes every exclusive column, mergeable or not.
prepare_source_for_merge_MutSuffixesMergeable(df, source_name, layer) ==
    LET keyCols == {layer.merge_keys[n] : n \in 1..Len(layer.merge_keys)}
        columns_to_suffix ==
            {c \in df.cols : /\ c \notin keyCols
                             /\ ~IsInternal(c)
                             /\ c \in layer.columns_to_keep_separate}
        rename(c) == IF c \in columns_to_suffix THEN Suffixed(c, source_name) ELSE c
        cols == {rename(c) : c \in df.cols}
    IN  [cols |-> cols,
         rows |-> [i \in 1..Len(df.rows) |->
                     [d \in cols |-> df.rows[i][CHOOSE c \in df.cols : rename(c) = d]]]]

prepare_source_for_merge(df, source_name, layer) ==
    LET keyCols == {layer.merge_keys[n] : n \in 1..Len(layer.merge_keys)}
        columns_to_suffix ==
            {c \in df.cols : /\ c \notin keyCols
                             /\ ~IsInternal(c)
                             /\ c \notin layer.columns_to_merge
                             /\ c \in layer.columns_to_keep_separate}
        rename(c) == IF c \in columns_to_suffix THEN Suffixed(c, source_name) ELSE c
        cols == {rename(c) : c \in df.cols}
    IN  [cols |-> cols,
         rows |-> [i \in 1..Len(df.rows) |->
                     [d \in cols |-> df.rows[i][CHOOSE c \in df.cols : rename(c) = d]]]]

\* The fold of _merge_sources over the prepared frames.
RECURSIVE merge_sources(_, _)
merge_sources(prepared_sources, layer) ==
    IF Len(prepared_sources) = 1 THEN prepared_sources[1]
    ELSE merge_two_dataframes(
             merge_sources(SubSeq(prepared_sources, 1, Len(prepared_sources) - 1), layer),
             prepared_sources[Len(prepared_sources)],
             layer.merge_keys, layer.merge_type, layer.conflict_resolution)

\* Whether a step of the fold raises.
RECURSIVE MergeSourcesRaises(_, _)
MergeSourcesRaises(prepared_sources, layer) ==
    /\ Len(prepared_sources) > 1
    /\ LET front == SubSeq(prepared_sources, 1, Len(prepared_sources) - 1)
       IN  \/ MergeSourcesRaises(front, layer)
           \/ MergeTwoRaises(merge_sources(front, layer),
                             prepared_sources[Len(prepared_sources)],
                             layer.merge_keys, layer.conflict_resolution)

PreparedSources(layer, data) ==
    LET found == Found(layer.sources, data)
    IN  [n \in 1..Len(found) |-> prepare_source_for_merge(data[found[n]], found[n], layer)]

\* A merge layer that also fails when a declared source is not found.
MergeLayerRaisesMutMissingSource(layer, data) ==
    \/ Len(layer.sources) < 2
    \/ Skipped(layer, data) # {}
    \/ MergeSourcesRaises(PreparedSources(layer, data), layer)

\* A merge layer that does not count its declared sources.
MergeLayerRaisesMutNoSourceCount(layer, data) ==
    LET prepared_sources == PreparedSources(layer, data)
    IN  /\ Len(prepared_sources) >= 2
        /\ \E n \in 1..Len(prepared_sources) : prepared_sources[n].rows # <<>>
        /\ MergeSourcesRaises(prepared_sources, layer)

\* Whether process_merge_layer raises: fewer than 2 declared sources, or a
\* step of the fold raising.
MergeLayerRaises(layer, data) ==
    \/ Len(layer.sources) < 2
    \/ LET prepared_sources == PreparedSources(layer, data)
       IN  /\ Len(prepared_sources) >= 2
           /\ \E n \in 1..Len(prepared_sources) : prepared_sources[n].rows # <<>>
           /\ MergeSourcesRaises(prepared_sources, layer)

\* The frame process_merge_layer returns (when it does not raise).
process_merge_layer(layer, staged_and_intermediate_data) ==
    LET prepared_sources == PreparedSources(layer, staged_and_intermediate_data)
    IN  IF Len(prepared_sources) < 2 THEN NoFrame
        ELSE IF \A n \in 1..Len(prepared_sources) : prepared_sources[n].rows = <<>>
             THEN NoFrame
        ELSE merge_sources(prepared_sources, layer)

LayerRaises(layer, data) ==
    CASE layer.kind = "union" -> FALSE
      [] layer.kind = "merge" -> MergeLayerRaises(layer, data)
      [] OTHER -> TRUE

\* The warnings a layer prints; a merge layer with fewer than 2 declared
\* sources raises before it looks any source up.
LayerWarnings(layer, data) ==
    IF layer.kind = "merge" /\ Len(layer.sources) < 2 THEN {} ELSE Skipped(layer, data)

process_intermediate_layer(layer, data) ==
    IF layer.kind = "union" THEN process_union_layer(layer, data)
    ELSE process_merge_layer(layer, data)

(***************************************************************************)
(* The layer processors on frame objects.  A heap is the sequence of the   *)
(* frames that exist, an object is its index; the namespace maps a name to *)
(* an object.  An operation of pandas that returns a new frame allocates,  *)
(* an assignment to a column changes the object it is made on.             *)
(***************************************************************************)
\* A new object holding frame.
Alloc(h, frame) == [heap |-> Append(h, frame), id |-> Len(h) + 1]

\* A copy that is the object itself.
CopyFrameMutSameObject(h, id) == [heap |-> h, id |-> id]

\* df.copy()
CopyFrame(h, id) == Alloc(h, h[id])

\* df['_source'] = source_name, made on the object id.
AddSourceColumn(h, id, source_name, add_source_column) ==
    [h EXCEPT ![id] = TagSource(h[id], source_name, add_source_column)]

\* The loop of process_union_layer over the first n declared sources: the
\* heap it leaves and the objects in dfs_to_union.
RECURSIVE UnionCopies(_, _, _, _)
UnionCopies(h, ns, layer, n) ==
    IF n = 0 THEN [heap |-> h, ids |-> <<>>]
    ELSE LET done == UnionCopies(h, ns, layer, n - 1)
             source_name == layer.sources[n]
         IN  IF source_name \notin DOMAIN ns THEN done
             ELSE LET df == CopyFrame(done.heap, ns[source_name])
                  IN  [heap |-> AddSourceColumn(df.heap, df.id, source_name,
                                                layer.add_source_column),
                       ids |-> Append(done.ids, df.id)]

\* process_union_layer: pd.DataFrame() or pd.concat(dfs_to_union) is a new
\* object.
UnionObject(h, ns, layer) ==
    LET u == UnionCopies(h, ns, layer, Len(layer.sources))
        made == IF u.ids = <<>> THEN Alloc(u.heap, NoFrame)
                ELSE Alloc(u.heap, ConcatAll([n \in 1..Len(u.ids) |-> u.heap[u.ids[n]]]))
    IN  [heap |-> made.heap, id |-> made.id, raised |-> FALSE]

\* _prepare_source_for_merge on the object id: df = df.copy(), then
\* df.rename(columns=rename_map), which returns a new frame.
PrepareObject(h, id, source_name, layer) ==
    LET df == CopyFrame(h, id)
    IN  Alloc(df.heap, prepare_source_for_merge(df.heap[df.id], source_name, layer))

\* The loop of process_merge_layer over the first n declared sources: the
\* heap it leaves and the objects in prepared_sources.
RECURSIVE MergeCopies(_, _, _, _)
MergeCopies(h, ns, layer, n) ==
    IF n = 0 THEN [heap |-> h, ids |-> <<>>]
    ELSE LET done == MergeCopies(h, ns, layer, n - 1)
             source_name == layer.sources[n]
         IN  IF source_name \notin DOMAIN ns THEN done
             ELSE LET df == CopyFrame(done.heap, ns[source_name])
                      df_prepared == PrepareObject(df.heap, df.id, source_name, layer)
                  IN  [heap |-> df_prepared.heap, ids |-> Append(done.ids, df_prepared.id)]

\* _merge_two_dataframes on the objects left and right: an empty side or a
\* missing key under merge type left returns the other object itself, every
\* other path returns a new frame.
MergeTwoObjects(h, left, right, merge_keys, merge_type, conflict_resolution) ==
    IF h[left].rows = <<>> THEN [heap |-> h, id |-> right]
    ELSE IF h[right].rows = <<>> THEN [heap |-> h, id |-> left]
    ELSE IF /\ MissingKeys(h[left], merge_keys) \/ MissingKeys(h[right], merge_keys)
            /\ merge_type = "left"
         THEN [heap |-> h, id |-> left]
    ELSE Alloc(h, merge_two_dataframes(h[left], h[right], merge_keys, merge_type,
                                       conflict_resolution))

\* The fold of _merge_sources over the first n prepared objects.
RECURSIVE MergeSourcesObject(_, _, _, _)
MergeSourcesObject(h, ids, layer, n) ==
    IF n = 1 THEN [heap |-> h, id |-> ids[1]]
    ELSE LET result == MergeSourcesObject(h, ids, layer, n - 1)
         IN  MergeTwoObjects(result.heap, result.id, ids[n], layer.merge_keys,
                             layer.merge_type, layer.conflict_resolution)

\* process_merge_layer on the objects of the namespace.
MergeObject(h, ns, layer) ==
    IF Len(layer.sources) < 2 THEN [heap |-> h, id |-> 0, raised |-> TRUE]
    ELSE LET p == MergeCopies(h, ns, layer, Len(layer.sources))
             prepared_sources == [n \in 1..Len(p.ids) |-> p.heap[p.ids[n]]]
         IN  IF \/ Len(p.ids) < 2
                \/ \A n \in 1..Len(p.ids) : p.heap[p.ids[n]].rows = <<>>
             THEN LET made == Alloc(p.heap, NoFrame)
                  IN  [heap |-> made.heap, id |-> made.id, raised |-> FALSE]
             ELSE IF MergeSourcesRaises(prepared_sources, layer)
                  THEN [heap |-> p.heap, id |-> 0, raised |-> TRUE]
             ELSE LET result == MergeSourcesObject(p.heap, p.ids, layer, Len(p.ids))
                  IN  [heap |-> result.heap, id |-> result.id, raised |-> FALSE]

\* process_intermediate_layer on the objects of the namespace.
LayerObject(h, ns, layer) ==
    IF layer.kind = "union" THEN UnionObject(h, ns, layer) ELSE MergeObject(h, ns, layer)

\* extract_field_metadata: a row per field of every non-empty staged source,
\* ordered by source name and field name.
FieldNames == <<"k", "v", "w">>

extract_field_metadata(staged_data) ==
    LET fields(s) ==
            IF s \notin DOMAIN staged_data \/ staged_data[s].rows = <<>> THEN <<>>
            ELSE LET fs == SelectSeq(FieldNames, LAMBDA c : c \in staged_data[s].cols)
                 IN  [n \in 1..Len(fs) |->
                        [field_source |-> SourceText(s), field_name |-> <<fs[n]>>,
                         field_type |-> <<"t">>]]
        rows == Flatten([n \in 1..Len(StagedNames) |-> fields(StagedNames[n])],
                        1, Len(StagedNames))
    IN  IF rows = <<>> THEN NoFrame
        ELSE [cols |-> {"field_source", "field_name", "field_type"}, rows |-> rows]

\* The frame write_output hands to the sheet: the internal columns removed.
WrittenFrame(df) ==
    LET cols == {c \in df.cols : ~IsInternal(c)}
    IN  [cols |-> cols, rows |-> [i \in 1..Len(df.rows) |-> [c \in cols |-> df.rows[i][c]]]]

OutputLayer(name, source_layer) == [name |-> name, source_layer |-> source_layer]

OUTPUT_LAYERS ==
    <<OutputLayer("all_data_by_contact", "m"), OutputLayer("marketing_data", "u"),
      OutputLayer("product_data", "s2"), OutputLayer("field_metadata", MetadataName)>>

\* The outputs written by the loop over OUTPUT_LAYERS: write_output returns
\* without writing when its source layer is not in the namespace.
RECURSIVE WriteOutputs(_, _)
WriteOutputs(outputs, data) ==
    IF outputs = <<>> THEN <<>>
    ELSE (IF Head(outputs).source_layer \in DOMAIN data
          THEN <<[name |-> Head(outputs).name,
                  frame |-> WrittenFrame(data[Head(outputs).source_layer])]>>
          ELSE <<>>)
         \o WriteOutputs(Tail(outputs), data)

(***************************************************************************)
(* State.                                                                  *)
(***************************************************************************)
VARIABLES
    table,               \* the deduplicator's input table
    keep,                \* its keep argument
    add_duplicate_info,  \* its add_duplicate_info argument
    dropped,             \* deduplicate_by_composite_key(table)
    redropped,           \* deduplicate_by_composite_key(dropped)
    merged,              \* deduplicate_with_merge_strategy(table)
    merge_raised,        \* whether that call raised
    calls,               \* the deduplicator calls made so far, in order
    left_value,          \* the resolver's left cell
    right_value,         \* the resolver's right cell
    resolution,          \* the column's ConflictResolution
    resolved,            \* _resolve_conflict(left, right, resolution)
    mirrored,            \* _resolve_conflict(right, left, mirrored resolution)
    resolve_raised,      \* whether _resolve_conflict raised
    resolver_calls,      \* the resolver calls made so far, in order
    left_table,          \* the left frame of a pairwise merge step
    right_table,         \* the right frame of the step
    merge_type,          \* the layer's merge_type
    merge_result,        \* the frame _merge_two_dataframes returned
    merge_pairs,         \* for each row of it, the left and right row it came from
    merge_step_raised,   \* whether _merge_two_dataframes raised
    merge_calls,         \* the merge steps made so far, in order
    all_data,            \* the run's namespace: name -> frame
    layers,              \* INTERMEDIATE_LAYERS, the declared layers
    layer_pc,            \* the position of the layer loop in it
    stage,               \* where the run is: intermediate, complete or aborted
    warnings,            \* the "not found, skipping" warnings printed so far
    before,              \* the namespace when the last layer started
    written,             \* the outputs written so far, in order
    raw_value,           \* the scalar handed to a normalizer
    normalizer,          \* which normalizer was called on it: none, phone or email
    normalized,          \* what the normalizer returned
    key_rows,            \* two records' raw email and phone_number
    key_ids,             \* their normalized identifiers
    row_keys,            \* their composite keys
    keys_built,          \* whether the keys were built
    prepared_sources,    \* the prepared frames _merge_sources folds over
    fold_type,           \* the layer's merge_type in the fold
    fold_resolution,     \* the layer's resolution for column v in the fold
    fold_result,         \* result, the accumulator of the fold
    fold_left,           \* the accumulator the last step started from
    fold_pc,             \* the position of the next source to merge
    fold_raised,         \* whether the last step raised
    prep_df,             \* the frame handed to _prepare_source_for_merge
    prep_source,         \* its source_name
    prep_layer,          \* the Merge layer it is prepared for
    prep_out,            \* the frame _prepare_source_for_merge returned
    prep_done,           \* whether it was called
    heap,                \* the frame objects, by identity
    names,               \* the namespace dict: name -> object
    heap_before,         \* the objects before the layer was processed
    obj_layer,           \* the layer processed on the objects
    obj_result,          \* the object the processor returned (0: none)
    obj_raised,          \* whether the processor raised
    obj_done,            \* whether the processor was called
    api_method,          \* the client method called
    page_arg,            \* the page argument (None: not given)
    limit_arg,           \* the limit argument (None: not given)
    page,                \* the page the loop is at
    all_items,           \* the items collected so far
    requests,            \* the requests made, in order
    responses,           \* the responses received, in order
    api_stage,           \* request, response, returned or raised
    api_result           \* the dict the method returned

dedupVars == <<table, keep, add_duplicate_info, dropped, redropped, merged, merge_raised, calls>>

resolverVars == <<left_value, right_value, resolution, resolved, mirrored, resolve_raised,
                  resolver_calls>>

mergeVars == <<left_table, right_table, merge_type, merge_result, merge_pairs,
               merge_step_raised, merge_calls>>

runVars == <<all_data, layers, layer_pc, stage, warnings, before, written>>

normVars == <<raw_value, normalizer, normalized>>

keyVars == <<key_rows, key_ids, row_keys, keys_built>>

foldVars == <<prepared_sources, fold_type, fold_resolution, fold_result, fold_left, fold_pc,
              fold_raised>>

prepVars == <<prep_df, prep_source, prep_layer, prep_out, prep_done>>

objVars == <<heap, names, heap_before, obj_layer, obj_result, obj_raised, obj_done>>

pageVars == <<api_method, page_arg, limit_arg, page, all_items, requests, responses, api_stage, api_result>>

vars == <<dedupVars, resolverVars, mergeVars, runVars, normVars, keyVars, foldVars, prepVars, objVars, pageVars>>

\* The parts of the state a specification does not use.
DedupIdle ==
    /\ table = EmptyTable
    /\ keep = "first"
    /\ add_duplicate_info = FALSE
    /\ dropped = EmptyTable
    /\ redropped = EmptyTable
    /\ merged = EmptyTable
    /\ merge_raised = FALSE
    /\ calls = <<>>

ResolverIdle ==
    /\ left_value = Null
    /\ right_value = Null
    /\ resolution = Resolution("first", LeftSource, "None")
    /\ resolved = Null
    /\ mirrored = Null
    /\ resolve_raised = FALSE
    /\ resolver_calls = <<>>

MergeIdle ==
    /\ left_table = NoFrame
    /\ right_table = NoFrame
    /\ merge_type = "outer"
    /\ merge_result = NoFrame
    /\ merge_pairs = <<>>
    /\ merge_step_raised = FALSE
    /\ merge_calls = <<>>

RunIdle ==
    /\ all_data = << >>
    /\ layers = <<>>
    /\ layer_pc = 1
    /\ stage = "intermediate"
    /\ warnings = {}
    /\ before = << >>
    /\ written = <<>>

NormalizerIdle ==
    /\ raw_value = Null
    /\ normalizer = "none"
    /\ normalized = Null

KeyIdle ==
    /\ key_rows = <<>>
    /\ key_ids = <<>>
    /\ row_keys = <<>>
    /\ keys_built = FALSE

PrepareIdle ==
    /\ prep_df = NoFrame
    /\ prep_source = "s1"
    /\ prep_layer = MergeLayer("m", <<"s1", "s2">>, <<"k">>, "outer", {}, {},
                               ConflictResolutionOf(Resolution("first", LeftSource, "None")))
    /\ prep_out = NoFrame
    /\ prep_done = FALSE

FoldIdle ==
    /\ prepared_sources = <<>>
    /\ fold_type = "outer"
    /\ fold_resolution = Resolution("first", LeftSource, "None")
    /\ fold_result = NoFrame
    /\ fold_left = NoFrame
    /\ fold_pc = 1
    /\ fold_raised = FALSE

ObjectIdle ==
    /\ heap = <<>>
    /\ names = << >>
    /\ heap_before = <<>>
    /\ obj_layer = UnionLayer("u", <<>>, FALSE)
    /\ obj_result = 0
    /\ obj_raised = FALSE
    /\ obj_done = FALSE

\* An argument that was not given (None).
NoArg == -1

PaginationIdle ==
    /\ api_method = "none"
    /\ page_arg = NoArg
    /\ limit_arg = NoArg
    /\ page = 0
    /\ all_items = <<>>
    /\ requests = <<>>
    /\ responses = <<>>
    /\ api_stage = "idle"
    /\ api_result = [count |-> 0, items |-> <<>>]

(***************************************************************************)
(* The deduplicator applied to one input: a drop-mode call, a second       *)
(* drop-mode call on its output, and a merge-mode call on the input.       *)
(***************************************************************************)
DedupInit ==
    /\ \E cs \in SUBSET {"email", "phone_number"} :
          \E n \in 0..MaxRows :
             \E f \in [1..n -> RowValues(cs)] : table = InputTable(cs, n, f)
    /\ keep \in KeepModes
    /\ add_duplicate_info \in BOOLEAN
    /\ dropped = EmptyTable
    /\ redropped = EmptyTable
    /\ merged = EmptyTable
    /\ merge_raised = FALSE
    /\ calls = <<>>
    /\ ResolverIdle
    /\ MergeIdle
    /\ RunIdle
    /\ NormalizerIdle
    /\ KeyIdle
    /\ FoldIdle
    /\ PrepareIdle
    /\ ObjectIdle
    /\ PaginationIdle

DropCall ==
    /\ calls = <<>>
    /\ dropped' = deduplicate_by_composite_key(table, keep, add_duplicate_info)
    /\ calls' = Append(calls, "drop")
    /\ UNCHANGED <<table, keep, add_duplicate_info, redropped, merged, merge_raised>>
    /\ UNCHANGED <<resolverVars, mergeVars, runVars, normVars, keyVars, foldVars, prepVars, objVars, pageVars>>

DropAgainCall ==
    /\ calls = <<"drop">>
    /\ redropped' = deduplicate_by_composite_key(dropped, keep, add_duplicate_info)
    /\ calls' = Append(calls, "redrop")
    /\ UNCHANGED <<table, keep, add_duplicate_info, dropped, merged, merge_raised>>
    /\ UNCHANGED <<resolverVars, mergeVars, runVars, normVars, keyVars, foldVars, prepVars, objVars, pageVars>>

MergeCall ==
    /\ calls = <<"drop", "redrop">>
    /\ \E r \in (IF MergeModeMayRaise(table) THEN BOOLEAN ELSE {FALSE}) :
          /\ merge_raised' = r
          /\ merged' = IF r THEN EmptyTable
                       ELSE deduplicate_with_merge_strategy(table, keep)
    /\ calls' = Append(calls, "merge")
    /\ UNCHANGED <<table, keep, add_duplicate_info, dropped, redropped>>
    /\ UNCHANGED <<resolverVars, mergeVars, runVars, normVars, keyVars, foldVars, prepVars, objVars, pageVars>>

DedupNext == DropCall \/ DropAgainCall \/ MergeCall

DedupSpec == DedupInit /\ [][DedupNext]_vars

(***************************************************************************)
(* The Conflict Resolver applied to one pair of cells, and to the swapped  *)
(* pair under the mirrored strategy (first <-> last).                      *)
(***************************************************************************)
Mirror(res) ==
    [res EXCEPT !.strategy = IF res.strategy = "first" THEN "last"
                             ELSE IF res.strategy = "last" THEN "first"
                             ELSE res.strategy]

ResolverInit ==
    /\ left_value \in CellValues
    /\ right_value \in CellValues
    /\ resolution \in Resolutions
    /\ resolved = Null
    /\ mirrored = Null
    /\ resolve_raised = FALSE
    /\ resolver_calls = <<>>
    /\ DedupIdle
    /\ MergeIdle
    /\ RunIdle
    /\ NormalizerIdle
    /\ KeyIdle
    /\ FoldIdle
    /\ PrepareIdle
    /\ ObjectIdle
    /\ PaginationIdle

ResolveCall ==
    /\ resolver_calls = <<>>
    /\ LET raises == \/ ResolveRaises(resolution)
                      \/ CompareRaises(left_value, right_value, resolution)
       IN  /\ resolve_raised' = raises
           /\ resolved' = IF raises THEN Null
                          ELSE resolve_conflict(left_value, right_value, resolution)
    /\ resolver_calls' = Append(resolver_calls, "resolve")
    /\ UNCHANGED <<left_value, right_value, resolution, mirrored>>
    /\ UNCHANGED <<dedupVars, mergeVars, runVars, normVars, keyVars, foldVars, prepVars, objVars, pageVars>>

MirroredCall ==
    /\ resolver_calls = <<"resolve">>
    /\ ~resolve_raised
    /\ mirrored' = resolve_conflict(right_value, left_value, Mirror(resolution))
    /\ resolver_calls' = Append(resolver_calls, "mirrored")
    /\ UNCHANGED <<left_value, right_value, resolution, resolved, resolve_raised>>
    /\ UNCHANGED <<dedupVars, mergeVars, runVars, normVars, keyVars, foldVars, prepVars, objVars, pageVars>>

ResolverNext == ResolveCall \/ MirroredCall

ResolverSpec == ResolverInit /\ [][ResolverNext]_vars

(***************************************************************************)
(* One pairwise merge step of a Merge layer with merge_keys ['k'] and the  *)
(* column v declared in conflict_resolution.                               *)
(***************************************************************************)
MergeTypes == {"inner", "outer", "left", "right"}

LayerMergeKeys == <<"k">>

\* A frame with the columns cs (k: the merge key, v: a value column), rows
\* given by f (a pair per row).
LayerTable(cs, n, f) ==
    [cols |-> cs,
     rows |-> [i \in 1..n |-> [c \in cs |-> IF c = "k" THEN f[i][1] ELSE f[i][2]]]]

\* The cells a row of a frame with the columns cs can hold; the value column
\* of a side holds the side's own text, so a resolved cell shows its origin.
SideValues(cs, text) ==
    (IF "k" \in cs THEN KeyValues ELSE {Null}) \X {Null, text}

SideColumns == {{"k", "v"}, {"v"}}

\* The column sets of the sides of one step: also with a column w for which
\* the layer declares no resolution.
JoinColumns == SideColumns \cup {{"k", "v", "w"}}

MergeResolutions ==
    {Resolution(st, LeftSource, "None") : st \in {"first", "last", "newest"}}

MergeInit ==
    /\ \E cs \in JoinColumns : \E n \in 0..MaxSide :
          \E f \in [1..n -> SideValues(cs, <<"x">>)] : left_table = LayerTable(cs, n, f)
    /\ \E cs \in JoinColumns : \E n \in 0..MaxSide :
          \E f \in [1..n -> SideValues(cs, <<"y">>)] : right_table = LayerTable(cs, n, f)
    /\ merge_type = "outer"
    /\ merge_result = NoFrame
    /\ merge_pairs = <<>>
    /\ merge_step_raised = FALSE
    /\ merge_calls = <<>>
    /\ ResolverIdle
    /\ DedupIdle
    /\ RunIdle
    /\ NormalizerIdle
    /\ KeyIdle
    /\ FoldIdle
    /\ PrepareIdle
    /\ ObjectIdle
    /\ PaginationIdle

\* _merge_two_dataframes(left, right, merge_keys, how, conflict_resolution)
\* for a layer of merge type `how` that declares `declared` for column v.
MergeStep ==
    /\ merge_calls = <<>>
    /\ \E how \in MergeTypes, declared \in MergeResolutions :
          LET raises == MergeTwoRaises(left_table, right_table, LayerMergeKeys,
                                       ConflictResolutionOf(declared))
          IN  /\ merge_type' = how
              /\ resolution' = declared
              /\ merge_step_raised' = raises
              /\ merge_result' =
                   IF raises THEN NoFrame
                   ELSE merge_two_dataframes(left_table, right_table, LayerMergeKeys,
                                             how, ConflictResolutionOf(declared))
              /\ merge_pairs' =
                   IF raises THEN <<>>
                   ELSE MergeTwoPairs(left_table, right_table, LayerMergeKeys, how)
    /\ merge_calls' = Append(merge_calls, "merge")
    /\ UNCHANGED <<left_table, right_table>>
    /\ UNCHANGED <<left_value, right_value, resolved, mirrored, resolve_raised,
                   resolver_calls>>
    /\ UNCHANGED <<dedupVars, runVars, normVars, keyVars, foldVars, prepVars, objVars, pageVars>>

MergeNext == MergeStep

MergeSpec == MergeInit /\ [][MergeNext]_vars

(***************************************************************************)
(* The fold of _merge_sources over the prepared sources of a Merge layer:  *)
(* result starts as the first source and takes every next source in turn.  *)
(***************************************************************************)
MaxSources == 3

\* The value column of the n-th source holds the source's own text.
FoldText(n) == IF n = 1 THEN <<"x">> ELSE IF n = 2 THEN <<"y">> ELSE <<"c">>

\* The columns and merge keys of a prepared source, row by row.
FoldShapes ==
    UNION {{[cols |-> cs, keys |-> f] :
              f \in [1..n -> (IF "k" \in cs THEN KeyValues ELSE {Null})]} :
           cs \in SideColumns, n \in 0..MaxSide}

FoldTable(shape, text) ==
    LayerTable(shape.cols, Len(shape.keys),
               [i \in 1..Len(shape.keys) |-> <<shape.keys[i], text>>])

FoldResolutions == {Resolution(st, LeftSource, "None") : st \in {"first", "newest"}}

\* source_name, result = prepared_sources[0]
FoldInit ==
    /\ \E n \in 2..MaxSources :
          \E t \in [1..n -> FoldShapes] :
             prepared_sources = [i \in 1..n |-> FoldTable(t[i], FoldText(i))]
    /\ fold_type \in MergeTypes
    /\ fold_resolution \in FoldResolutions
    /\ fold_result = prepared_sources[1]
    /\ fold_left = NoFrame
    /\ fold_pc = 2
    /\ fold_raised = FALSE
    /\ DedupIdle
    /\ ResolverIdle
    /\ MergeIdle
    /\ RunIdle
    /\ NormalizerIdle
    /\ KeyIdle
    /\ PrepareIdle
    /\ ObjectIdle
    /\ PaginationIdle

\* One turn of the loop: result = _merge_two_dataframes(result, df_to_merge, ...)
FoldStep ==
    /\ ~fold_raised
    /\ fold_pc <= Len(prepared_sources)
    /\ LET df_to_merge == prepared_sources[fold_pc]
           raises == MergeTwoRaises(fold_result, df_to_merge, LayerMergeKeys,
                                    ConflictResolutionOf(fold_resolution))
       IN  /\ fold_raised' = raises
           /\ fold_left' = fold_result
           /\ fold_result' =
                IF raises THEN fold_result
                ELSE merge_two_dataframes(fold_result, df_to_merge, LayerMergeKeys,
                                          fold_type, ConflictResolutionOf(fold_resolution))
           /\ fold_pc' = IF raises THEN fold_pc ELSE fold_pc + 1
    /\ UNCHANGED <<prepared_sources, fold_type, fold_resolution>>
    /\ UNCHANGED <<dedupVars, resolverVars, mergeVars, runVars, normVars, keyVars, prepVars, objVars, pageVars>>

FoldNext == FoldStep

FoldSpec == FoldInit /\ [][FoldNext]_vars

(***************************************************************************)
(* One source prepared for a Merge layer.                                  *)
(***************************************************************************)
SourceColumns == {"k", "v", "w", "_source"}

\* The cell of row i in column c: the column's own text and the row number.
PrepCell(c, i) ==
    (CASE c = "k" -> <<"a">> [] c = "v" -> <<"x">> [] c = "w" -> <<"y">> [] OTHER -> <<"b">>)
    \o (IF i = 1 THEN <<"1">> ELSE IF i = 2 THEN <<"2">> ELSE <<"3">>)

PrepTable(cs, n) ==
    [cols |-> cs, rows |-> [i \in 1..n |-> [c \in cs |-> PrepCell(c, i)]]]

PrepareInit ==
    /\ \E cs \in SUBSET SourceColumns : \E n \in 0..MaxSide : prep_df = PrepTable(cs, n)
    /\ prep_source \in {"s1", "s2"}
    /\ \E to_merge \in SUBSET {"v", "w"}, separate \in SUBSET SourceColumns :
          prep_layer = MergeLayer("m", <<"s1", "s2">>, LayerMergeKeys, "outer", to_merge,
                                  separate,
                                  ConflictResolutionOf(Resolution("first", LeftSource, "None")))
    /\ prep_out = NoFrame
    /\ prep_done = FALSE
    /\ DedupIdle
    /\ ResolverIdle
    /\ MergeIdle
    /\ RunIdle
    /\ NormalizerIdle
    /\ KeyIdle
    /\ FoldIdle
    /\ ObjectIdle
    /\ PaginationIdle

\* df_prepared = _prepare_source_for_merge(df, source_name, layer)
PrepareCall ==
    /\ ~prep_done
    /\ prep_out' = prepare_source_for_merge(prep_df, prep_source, prep_layer)
    /\ prep_done' = TRUE
    /\ UNCHANGED <<prep_df, prep_source, prep_layer>>
    /\ UNCHANGED <<dedupVars, resolverVars, mergeVars, runVars, normVars, keyVars, foldVars, objVars, pageVars>>

PrepareNext == PrepareCall

PrepareSpec == PrepareInit /\ [][PrepareNext]_vars

(***************************************************************************)
(* A pipeline run (main.py): the layer loop over INTERMEDIATE_LAYERS, then *)
(* the loop over OUTPUT_LAYERS.  An exception leaves main: the run aborts. *)
(***************************************************************************)
\* The frame of a staged source: its key column k, a value column that holds
\* the source's own text, and (when staged with it) its _source tag.
ValueText(name) == IF name = "s1" THEN <<"x">> ELSE <<"y">>

RunKeys == {<<"a">>, <<"b">>}

StagedTable(name, cs, n, f) ==
    [cols |-> cs,
     rows |-> [i \in 1..n |->
                 [c \in cs |-> IF c = "k" THEN f[i]
                               ELSE IF c = "_source" THEN SourceText(name)
                               ELSE ValueText(name)]]]

StagedColumns(name) ==
    IF name = "s1" THEN {{"k", "v"}, {"k", "w", "_source"}} ELSE {{"k", "v"}}

\* all_data = staged_data.copy(); all_data['_field_metadata'] = field_metadata
Namespace(staged_data) ==
    [n \in DOMAIN staged_data \cup {MetadataName} |->
        IF n = MetadataName THEN extract_field_metadata(staged_data) ELSE staged_data[n]]

\* The layers a run can declare.
UnionSources == {<<"s1", "s2">>, <<"s2", "s1">>, <<"m", "s1">>}

MergeSources == {<<"s1", "s2">>, <<"u", "s2">>, <<"s1", "s2", "u">>, <<"s1">>}

RunResolutions ==
    {Resolution(st, LeftSource, "None") : st \in {"first", "newest"}}
    \cup {Resolution("custom", LeftSource, "raises")}

RunLayers ==
    {UnionLayer("u", srcs, tag) : srcs \in UnionSources, tag \in BOOLEAN}
    \cup {MergeLayer("m", srcs, LayerMergeKeys, how, {"v"}, {"w"}, ConflictResolutionOf(res)) :
            srcs \in MergeSources, how \in {"outer", "inner"}, res \in RunResolutions}

RunInit ==
    /\ \E staged \in SUBSET {"s1", "s2"} :
          \E c1 \in StagedColumns("s1"), c2 \in StagedColumns("s2") :
             \E n1, n2 \in 0..MaxStaged :
                \E f1 \in [1..n1 -> RunKeys], f2 \in [1..n2 -> RunKeys] :
                   all_data = Namespace([s \in staged |->
                                            IF s = "s1" THEN StagedTable(s, c1, n1, f1)
                                            ELSE StagedTable(s, c2, n2, f2)])
    /\ \E n \in 0..MaxLayers : layers \in [1..n -> RunLayers]
    /\ layer_pc = 1
    /\ stage = "intermediate"
    /\ warnings = {}
    /\ before = all_data
    /\ written = <<>>
    /\ DedupIdle
    /\ ResolverIdle
    /\ MergeIdle
    /\ NormalizerIdle
    /\ KeyIdle
    /\ FoldIdle
    /\ PrepareIdle
    /\ ObjectIdle
    /\ PaginationIdle

\* A layer loop that hands every layer the staged tables only, without the
\* outputs of the layers before it.
ProcessLayerMutReadsStagedOnly ==
    /\ stage = "intermediate"
    /\ layer_pc <= Len(layers)
    /\ LET layer == layers[layer_pc]
           staged_only == [n \in DOMAIN all_data \ {layers[i].name : i \in 1..Len(layers)} |->
                              all_data[n]]
       IN  /\ before' = all_data
           /\ warnings' = warnings \cup LayerWarnings(layer, staged_only)
           /\ IF LayerRaises(layer, staged_only)
              THEN /\ stage' = "aborted"
                   /\ UNCHANGED <<all_data, layer_pc>>
              ELSE /\ all_data' =
                        [n \in DOMAIN all_data \cup {layer.name} |->
                            IF n = layer.name THEN process_intermediate_layer(layer, staged_only)
                            ELSE all_data[n]]
                   /\ layer_pc' = layer_pc + 1
                   /\ UNCHANGED stage
    /\ UNCHANGED <<layers, written>>
    /\ UNCHANGED <<dedupVars, resolverVars, mergeVars, normVars, keyVars, foldVars, prepVars, objVars, pageVars>>

\* A layer loop that goes on to the next layer when a layer raises.
ProcessLayerMutKeepsGoing ==
    /\ stage = "intermediate"
    /\ layer_pc <= Len(layers)
    /\ LET layer == layers[layer_pc]
       IN  /\ before' = all_data
           /\ warnings' = warnings \cup LayerWarnings(layer, all_data)
           /\ all_data' =
                 IF LayerRaises(layer, all_data) THEN all_data
                 ELSE [n \in DOMAIN all_data \cup {layer.name} |->
                         IF n = layer.name THEN process_intermediate_layer(layer, all_data)
                         ELSE all_data[n]]
           /\ layer_pc' = layer_pc + 1
           /\ UNCHANGED stage
    /\ UNCHANGED <<layers, written>>
    /\ UNCHANGED <<dedupVars, resolverVars, mergeVars, normVars, keyVars, foldVars, prepVars, objVars, pageVars>>

\* One turn of the layer loop:
\*   result_df = process_intermediate_layer(layer, all_data)
\*   all_data[layer.name] = result_df
ProcessLayer ==
    /\ stage = "intermediate"
    /\ layer_pc <= Len(layers)
    /\ LET layer == layers[layer_pc]
       IN  /\ before' = all_data
           /\ warnings' = warnings \cup LayerWarnings(layer, all_data)
           /\ IF LayerRaises(layer, all_data)
              THEN /\ stage' = "aborted"
                   /\ UNCHANGED <<all_data, layer_pc>>
              ELSE /\ all_data' =
                        [n \in DOMAIN all_data \cup {layer.name} |->
                            IF n = layer.name THEN process_intermediate_layer(layer, all_data)
                            ELSE all_data[n]]
                   /\ layer_pc' = layer_pc + 1
                   /\ UNCHANGED stage
    /\ UNCHANGED <<layers, written>>
    /\ UNCHANGED <<dedupVars, resolverVars, mergeVars, normVars, keyVars, foldVars, prepVars, objVars, pageVars>>

\* The loop over OUTPUT_LAYERS, after the last layer.
WriteAllOutputs ==
    /\ stage = "intermediate"
    /\ layer_pc > Len(layers)
    /\ written' = WriteOutputs(OUTPUT_LAYERS, all_data)
    /\ stage' = "complete"
    /\ UNCHANGED <<all_data, layers, layer_pc, warnings, before>>
    /\ UNCHANGED <<dedupVars, resolverVars, mergeVars, normVars, keyVars, foldVars, prepVars, objVars, pageVars>>

RunNext == ProcessLayer \/ WriteAllOutputs

RunSpec == RunInit /\ [][RunNext]_vars

(***************************************************************************)
(* One layer processed on the frame objects of a namespace.                *)
(***************************************************************************)
\* The column sets of a staged source; s2 also comes without the merge key.
ObjectColumns(name) ==
    IF name = "s2" THEN StagedColumns(name) \cup {{"v"}} ELSE StagedColumns(name)

ObjectLayers ==
    {UnionLayer("u", srcs, tag) : srcs \in UnionSources, tag \in BOOLEAN}
    \cup {MergeLayer("m", srcs, LayerMergeKeys, how, {"v"}, {"w"}, ConflictResolutionOf(res)) :
            srcs \in MergeSources, how \in MergeTypes, res \in RunResolutions}

\* The order in which the namespace's frames were made.
ObjectOrder == <<"s1", "s2", MetadataName>>

ObjectInit ==
    /\ \E staged \in SUBSET {"s1", "s2"} :
          \E c1 \in ObjectColumns("s1"), c2 \in ObjectColumns("s2") :
             \E n1, n2 \in 0..MaxStaged :
                \E f1 \in [1..n1 -> RunKeys], f2 \in [1..n2 -> RunKeys] :
                   LET data == Namespace([s \in staged |->
                                             IF s = "s1" THEN StagedTable(s, c1, n1, f1)
                                             ELSE StagedTable(s, c2, n2, f2)])
                       order == SelectSeq(ObjectOrder, LAMBDA n : n \in DOMAIN data)
                   IN  /\ heap = [i \in 1..Len(order) |-> data[order[i]]]
                       /\ names = [n \in DOMAIN data |->
                                     CHOOSE i \in 1..Len(order) : order[i] = n]
    /\ heap_before = heap
    /\ obj_layer \in ObjectLayers
    /\ obj_result = 0
    /\ obj_raised = FALSE
    /\ obj_done = FALSE
    /\ DedupIdle
    /\ ResolverIdle
    /\ MergeIdle
    /\ RunIdle
    /\ NormalizerIdle
    /\ KeyIdle
    /\ FoldIdle
    /\ PrepareIdle
    /\ PaginationIdle

\* result_df = process_intermediate_layer(layer, all_data)
ProcessObjectLayer ==
    /\ ~obj_done
    /\ LET r == LayerObject(heap, names, obj_layer)
       IN  /\ heap' = r.heap
           /\ obj_result' = r.id
           /\ obj_raised' = r.raised
    /\ obj_done' = TRUE
    /\ UNCHANGED <<names, heap_before, obj_layer>>
    /\ UNCHANGED <<dedupVars, resolverVars, mergeVars, runVars, normVars, keyVars, foldVars, prepVars, pageVars>>

ObjectNext == ProcessObjectLayer

ObjectSpec == ObjectInit /\ [][ObjectNext]_vars

(***************************************************************************)
(* The normalizers applied to one scalar.                                  *)
(***************************************************************************)
MaxEmailLen == 4

\* What may stand before the number: nothing, one prefix, or prefixes in a row.
PhoneLeads == { <<>>, <<"0">>, <<"6", "2">>, <<"+", "6", "2">>, <<"0", "0">>,
                <<"0", "6", "2">>, <<"6", "2", "0">>, <<"+", "6", "2", "0">>,
                <<"6", "2", "6", "2">> }

\* Subscriber numbers of 8, 9, 12 and 13 digits.
PhoneBodies == { <<"8", "1", "2", "3", "4", "5", "6", "7">>,
                 <<"8", "1", "2", "3", "4", "5", "6", "7", "8">>,
                 <<"8", "1", "2", "3", "4", "5", "6", "7", "8", "9", "0", "1">>,
                 <<"8", "1", "2", "3", "4", "5", "6", "7", "8", "9", "0", "1", "2">> }

\* Phone numbers as they are typed: padded, separated, annotated.
PhoneInputs ==
    {Null, <<>>, <<" ">>,
     <<"0", "8", "1", "2", "-", "3", "4", "5", "6", "-", "7", "8", "9">>}
    \cup { pre \o lead \o SubSeq(b, 1, 3) \o sep \o SubSeq(b, 4, Len(b)) \o post :
             pre \in {<<>>, <<" ">>}, lead \in PhoneLeads, b \in PhoneBodies,
             sep \in {<<>>, <<"-">>, <<"(">>, <<"+">>},
             post \in {<<>>, <<" ">>, <<"x">>} }

EmailChars == {"a", "A", "@", ".", " "}

EmailInputs == {Null} \cup UNION {[1..n -> EmailChars] : n \in 0..MaxEmailLen}

NormalizerInit ==
    /\ raw_value \in PhoneInputs \cup EmailInputs
    /\ normalizer = "none"
    /\ normalized = Null
    /\ DedupIdle
    /\ ResolverIdle
    /\ MergeIdle
    /\ RunIdle
    /\ KeyIdle
    /\ FoldIdle
    /\ PrepareIdle
    /\ ObjectIdle
    /\ PaginationIdle

NormalizePhoneCall ==
    /\ normalizer = "none"
    /\ normalizer' = "phone"
    /\ normalized' = normalize_phone_number(raw_value)
    /\ UNCHANGED raw_value
    /\ UNCHANGED <<dedupVars, resolverVars, mergeVars, runVars, keyVars, foldVars, prepVars, objVars, pageVars>>

NormalizeEmailCall ==
    /\ normalizer = "none"
    /\ normalizer' = "email"
    /\ normalized' = normalize_email(raw_value)
    /\ UNCHANGED raw_value
    /\ UNCHANGED <<dedupVars, resolverVars, mergeVars, runVars, keyVars, foldVars, prepVars, objVars, pageVars>>

NormalizerNext == NormalizePhoneCall \/ NormalizeEmailCall

NormalizerSpec == NormalizerInit /\ [][NormalizerNext]_vars

(***************************************************************************)
(* The normalized identifiers and composite keys of two records.           *)
(***************************************************************************)
KeyEmails == { Null, <<"x">>,
               <<"a", "@", "x", ".", "c">>,
               <<" ", "A", "@", "x", ".", "c">>,
               <<"a", "@", "x", ".", "c", "|">>,
               <<"|", "@", "x", ".", "c">>,
               <<"a", "@", "x", ".", "c", "|", "+", "6", "2", "8", "1", "2", "3", "4",
                 "5", "6", "7", "8">> }

KeyPhones == { Null, <<"1", "2">>,
               <<"0", "8", "1", "2", "3", "4", "5", "6", "7", "8">>,
               <<"+", "6", "2", "8", "1", "2", "3", "4", "5", "6", "7", "8">>,
               <<"8", "1", "2", "3", "4", "5", "6", "7", "9">> }

KeyInit ==
    /\ key_rows \in [{1, 2} -> [email : KeyEmails, phone_number : KeyPhones]]
    /\ key_ids = <<>>
    /\ row_keys = <<>>
    /\ keys_built = FALSE
    /\ DedupIdle
    /\ ResolverIdle
    /\ MergeIdle
    /\ RunIdle
    /\ NormalizerIdle
    /\ FoldIdle
    /\ PrepareIdle
    /\ ObjectIdle
    /\ PaginationIdle

\* The normalized columns and the composite key column of the two records.
BuildKeys ==
    /\ ~keys_built
    /\ LET ids == [i \in {1, 2} |->
                     [email |-> normalize_email(key_rows[i].email),
                      phone_number |-> normalize_phone_number(key_rows[i].phone_number)]]
       IN  /\ key_ids' = ids
           /\ row_keys' = [i \in {1, 2} |->
                             create_composite_key(ids[i].email, ids[i].phone_number)]
    /\ keys_built' = TRUE
    /\ UNCHANGED key_rows
    /\ UNCHANGED <<dedupVars, resolverVars, mergeVars, runVars, normVars, foldVars, prepVars, objVars, pageVars>>

KeyNext == BuildKeys

KeySpec == KeyInit /\ [][KeyNext]_vars

(***************************************************************************)
(* EduqatClient.get_users, get_enrollments and get_courses                 *)
(* (eduqat_client.py): one call, request by request.  The API answers a    *)
(* request with any number of items, or the request fails.                 *)
(***************************************************************************)
MaxPages == 3

\* page_limit = 100
page_limit == 100

ApiMethods == {"get_users", "get_enrollments", "get_courses"}

Endpoint(method) ==
    CASE method = "get_users" -> "/manage/admin/users"
      [] method = "get_enrollments" -> "/manage/admin/enrollments"
      [] method = "get_courses" -> "/manage/admin/courses"

\* if page is not None or limit is not None: a single page is requested.
SinglePage == page_arg # NoArg \/ limit_arg # NoArg

\* The params dict of the next request.
Params ==
    IF SinglePage
    THEN [k \in (IF page_arg # NoArg THEN {"page"} ELSE {})
                \cup (IF limit_arg # NoArg THEN {"limit"} ELSE {}) |->
             IF k = "page" THEN page_arg ELSE limit_arg]
    ELSE [k \in {"page", "limit"} |-> IF k = "page" THEN page ELSE page_limit]

\* The numbers of items a response can hold.
PageSizes == {0, 1, page_limit - 1, page_limit, page_limit + 1}

\* The JSON bodies the API can send to the r-th request: n items (the i-th
\* item of the r-th response is <<r, i>>) with a count field of its own, or
\* a body without an items key.
ApiResponses(r) ==
    UNION {{[count |-> c, items |-> [i \in 1..n |-> <<r, i>>]] : c \in {n, page_limit + 2}} :
           n \in PageSizes}
    \cup {[count |-> 0]}

\* response.get('items', [])
ItemsOf(response) == IF "items" \in DOMAIN response THEN response.items ELSE <<>>

PaginationInit ==
    /\ api_method \in ApiMethods
    /\ page_arg \in {NoArg, 1, 2}
    /\ limit_arg \in {NoArg, 25}
    /\ page = IF SinglePage THEN 0 ELSE 1
    /\ all_items = <<>>
    /\ requests = <<>>
    /\ responses = <<>>
    /\ api_stage = "request"
    /\ api_result = [count |-> 0, items |-> <<>>]
    /\ DedupIdle
    /\ ResolverIdle
    /\ MergeIdle
    /\ RunIdle
    /\ NormalizerIdle
    /\ KeyIdle
    /\ FoldIdle
    /\ PrepareIdle
    /\ ObjectIdle

\* response = self._make_request(endpoint, params=params): the parsed body,
\* or EduqatApiError leaves the method.
MakeRequest ==
    /\ api_stage = "request"
    /\ page <= MaxPages
    /\ requests' = Append(requests, [endpoint |-> Endpoint(api_method), params |-> Params])
    /\ \/ /\ \E response \in ApiResponses(Len(requests) + 1) :
                responses' = Append(responses, response)
          /\ api_stage' = "response"
       \/ /\ api_stage' = "raised"
          /\ UNCHANGED responses
    /\ UNCHANGED <<api_method, page_arg, limit_arg, page, all_items, api_result>>
    /\ UNCHANGED <<dedupVars, resolverVars, mergeVars, runVars, normVars, keyVars, foldVars, prepVars, objVars>>

\* A loop that also stops at a page of exactly page_limit items.
HandleResponseMutStopsAtFullPage ==
    /\ api_stage = "response"
    /\ LET items == ItemsOf(responses[Len(responses)])
       IN  IF SinglePage
           THEN /\ api_result' = [count |-> Len(items), items |-> items]
                /\ api_stage' = "returned"
                /\ UNCHANGED <<page, all_items>>
           ELSE /\ all_items' = all_items \o items
                /\ IF Len(items) <= page_limit
                   THEN /\ api_result' = [count |-> Len(all_items'), items |-> all_items']
                        /\ api_stage' = "returned"
                        /\ UNCHANGED page
                   ELSE /\ page' = page + 1
                        /\ api_stage' = "request"
                        /\ UNCHANGED api_result
    /\ UNCHANGED <<api_method, page_arg, limit_arg, requests, responses>>
    /\ UNCHANGED <<dedupVars, resolverVars, mergeVars, runVars, normVars, keyVars, foldVars, prepVars, objVars>>

\* The rest of a turn: items = response.get('items', []), then the single
\* page is returned, or all_items.extend(items) and the loop breaks on a
\* page shorter than page_limit or goes on to the next page.
HandleResponse ==
    /\ api_stage = "response"
    /\ LET items == ItemsOf(responses[Len(responses)])
       IN  IF SinglePage
           THEN /\ api_result' = [count |-> Len(items), items |-> items]
                /\ api_stage' = "returned"
                /\ UNCHANGED <<page, all_items>>
           ELSE /\ all_items' = all_items \o items
                /\ IF Len(items) < page_limit
                   THEN /\ api_result' = [count |-> Len(all_items'), items |-> all_items']
                        /\ api_stage' = "returned"
                        /\ UNCHANGED page
                   ELSE /\ page' = page + 1
                        /\ api_stage' = "request"
                        /\ UNCHANGED api_result
    /\ UNCHANGED <<api_method, page_arg, limit_arg, requests, responses>>
    /\ UNCHANGED <<dedupVars, resolverVars, mergeVars, runVars, normVars, keyVars, foldVars, prepVars, objVars>>

PaginationNext == MakeRequest \/ HandleResponse

PaginationSpec == PaginationInit /\ [][PaginationNext]_vars

\* The method call runs on: a step that can be taken is taken.
PaginationFairSpec == PaginationSpec /\ WF_vars(PaginationNext)

(***************************************************************************)
(* Claims about the deduplicator (checked under DedupSpec).                *)
(***************************************************************************)
\* The composite keys of the input table, row by row.
InputKeys == [i \in 1..Len(table.rows) |-> CompositeKey(table, table.rows[i])]

\* The index labels of the rows of a table.
Labels(T) == {T.rows[k].idx : k \in 1..Len(T.rows)}

DropDone == Len(calls) >= 1

RedropDone == Len(calls) >= 2

MergeDone == Len(calls) >= 3

\* C1: in drop mode every input record whose composite key is null (both
\* normalized identifiers null) appears in the output, for every table and
\* every keep: null-key records are never collapsed into one.
C1_NullKeyRowsAlwaysKept ==
    DropDone =>
        \A i \in 1..Len(table.rows) :
            IsNa(InputKeys[i]) => table.rows[i].idx \in Labels(dropped)

\* C2 as claimed: drop mode applied to its own output returns a table equal
\* to that output: same rows, same order, same value in every column.
C2_DropIdempotent ==
    RedropDone => redropped = dropped

\* A row with the two duplicate-statistics cells of another row.
WithInfoOf(r, q) ==
    [r EXCEPT !.duplicate_count = q.duplicate_count, !.is_duplicate = q.is_duplicate]

\* C2 as amended: drop mode applied to its own output returns the same rows
\* in the same order with the same value in every column other than
\* duplicate_count and is_duplicate; those two are recomputed on the
\* deduplicated table (count 1 or missing, is_duplicate false), and the two
\* tables are equal when add_duplicate_info is off.
C2_DropIdempotentUpToDuplicateInfo ==
    RedropDone =>
        /\ redropped.cols = dropped.cols
        /\ Len(redropped.rows) = Len(dropped.rows)
        /\ \A k \in 1..Len(dropped.rows) :
              /\ WithInfoOf(redropped.rows[k], dropped.rows[k]) = dropped.rows[k]
              /\ add_duplicate_info =>
                    /\ redropped.rows[k].duplicate_count \in {NaNCount, 1}
                    /\ ~redropped.rows[k].is_duplicate
        /\ ~add_duplicate_info => redropped = dropped

\* C2's case: a table with duplicates went through drop mode twice, with the
\* duplicate statistics on, and the second output differs from the first.
C2_Witness ==
    /\ RedropDone
    /\ add_duplicate_info
    /\ Len(dropped.rows) < Len(table.rows)
    /\ Len(dropped.rows) >= 2
    /\ redropped # dropped

\* The pairs of input rows of C9: same normalized email, the first without a
\* normalized phone, the second with one.
PartialFullPairs ==
    {p \in (1..Len(table.rows)) \X (1..Len(table.rows)) :
        /\ NotNa(EmailNormalized(table, table.rows[p[1]]))
        /\ EmailNormalized(table, table.rows[p[1]]) = EmailNormalized(table, table.rows[p[2]])
        /\ IsNa(PhoneNormalized(table, table.rows[p[1]]))
        /\ NotNa(PhoneNormalized(table, table.rows[p[2]]))}

\* The rows of an output table that carry the normalized identifiers of
\* input row i.
SameIdentifiers(T, i) ==
    {k \in 1..Len(T.rows) :
        /\ T.rows[k].email_normalized = EmailNormalized(table, table.rows[i])
        /\ T.rows[k].phone_number_normalized = PhoneNormalized(table, table.rows[i])}

C10_NoIdentifierColumnsNoDedup ==
    /\ (table.cols \cap {"email", "phone_number"} = {} /\ table.rows # <<>>) =>
          /\ DropDone => Len(dropped.rows) = Len(table.rows)
          /\ MergeDone => ~merge_raised /\ Len(merged.rows) = Len(table.rows)
    /\ table.rows = <<>> =>
          /\ DropDone => dropped = table
          /\ MergeDone => merged = table

\* C29: drop mode keeps only one of two records that share the same
\* normalized email (even if their phones differ) or the same normalized
\* phone (even if their emails differ): no two records of its output share
\* a normalized email, or a normalized phone.
C29_SharedEmailOrPhoneAreDuplicates ==
    DropDone =>
        \A a, b \in 1..Len(dropped.rows) :
            a # b =>
               /\ ~(/\ NotNa(dropped.rows[a].email_normalized)
                    /\ dropped.rows[a].email_normalized = dropped.rows[b].email_normalized)
               /\ ~(/\ NotNa(dropped.rows[a].phone_number_normalized)
                    /\ dropped.rows[a].phone_number_normalized
                          = dropped.rows[b].phone_number_normalized)

\* The input rows that carry the composite key k.
Partition(k) == {i \in 1..Len(table.rows) : InputKeys[i] = k}

\* The non-null composite keys of the input table.
NonNullKeys == {InputKeys[i] : i \in 1..Len(table.rows)} \ {Null}

\* The base record of a partition: its first row for keep=first, its last
\* for keep=last, by original order.
BaseOf(k) ==
    IF keep = "first" THEN CHOOSE i \in Partition(k) : \A j \in Partition(k) : i <= j
    ELSE CHOOSE i \in Partition(k) : \A j \in Partition(k) : i >= j

DataColumns == table.cols \cap {"email", "phone_number", "note"}

\* The rows of the merge-mode output that carry the composite key k.
MergedWithKey(k) ==
    {g \in 1..Len(merged.rows) :
        create_composite_key(merged.rows[g].email_normalized,
                             merged.rows[g].phone_number_normalized) = k}

\* C12: in merge mode each partition of records sharing a non-null composite
\* key yields exactly one output record built from the base record (first or
\* last of the partition): a non-null cell of the base is kept, a null cell
\* of the base takes the first non-null value of its column among the
\* partition's records in original order (null if there is none); a
\* partition of one record passes through unchanged.
C12_MergeFillsBaseFromPartition ==
    (MergeDone /\ ~merge_raised) =>
        \A k \in NonNullKeys :
            /\ Cardinality(MergedWithKey(k)) = 1
            /\ \A g \in MergedWithKey(k) :
                  \A col \in DataColumns :
                     LET base == table.rows[BaseOf(k)]
                         have == {i \in Partition(k) : NotNa(table.rows[i][col])}
                     IN  /\ NotNa(base[col]) => merged.rows[g][col] = base[col]
                         /\ (IsNa(base[col]) /\ have = {}) => IsNa(merged.rows[g][col])
                         /\ (IsNa(base[col]) /\ have # {}) =>
                               \E i \in have :
                                  /\ \A j \in have : i <= j
                                  /\ merged.rows[g][col] = table.rows[i][col]
                         /\ Cardinality(Partition(k)) = 1 =>
                               merged.rows[g][col] = base[col]

\* C12's case: keep=last on three records with one key whose notes are b, c
\* and null: the output record is the third with the note b.
C12_Witness ==
    /\ MergeDone
    /\ ~merge_raised
    /\ keep = "last"
    /\ Len(table.rows) = 3
    /\ NotNa(InputKeys[1])
    /\ InputKeys[1] = InputKeys[2]
    /\ InputKeys[2] = InputKeys[3]
    /\ table.rows[1].note = <<"b">>
    /\ table.rows[2].note = <<"c">>
    /\ IsNa(table.rows[3].note)
    /\ Len(merged.rows) = 1
    /\ merged.rows[1].note = <<"b">>

(***************************************************************************)
(* Claims about the normalizers (checked under NormalizerSpec).            *)
(***************************************************************************)
PhoneCalled == normalizer = "phone"

EmailCalled == normalizer = "email"

CountryPrefix == <<"+", "6", "2">>

\* `+62` followed by 9 to 12 digits.
IsNormalPhone(v) ==
    /\ StartsWith(v, CountryPrefix)
    /\ Len(v) - 3 \in 9..12
    /\ \A i \in 4..Len(v) : v[i] \in Digits

\* s without its one leading prefix among +62, 62, 0 (s itself without one).
WithoutOnePrefix(s) ==
    IF StartsWith(s, CountryPrefix) THEN DropPrefix(s, 3)
    ELSE IF StartsWith(s, <<"6", "2">>) THEN DropPrefix(s, 2)
    ELSE IF StartsWith(s, <<"0">>) THEN DropPrefix(s, 1)
    ELSE s

\* The result for a non-empty input of which `kept` is left after removal.
PhoneFrom(kept) ==
    LET rest == WithoutOnePrefix(kept)
    IN  IF rest # <<>> /\ Len(rest) \in 9..12 /\ \A i \in 1..Len(rest) : rest[i] \in Digits
        THEN CountryPrefix \o rest
        ELSE Null

\* The forms d, 0d, 62d, +62d of a number d of 9-12 digits that does not
\* itself start with 0 or 62 normalize to +62d; 0812-3456-789 to +628123456789.
PhoneFormsAgree ==
    /\ \A p \in {<<>>, <<"0">>, <<"6", "2">>, CountryPrefix} :
          (NotNa(raw_value) /\ StartsWith(raw_value, p)) =>
              LET d == DropPrefix(raw_value, Len(p))
              IN  (/\ IsDigitStr(d)
                   /\ Len(d) \in 9..12
                   /\ ~StartsWith(d, <<"0">>)
                   /\ ~StartsWith(d, <<"6", "2">>)) => normalized = CountryPrefix \o d
    /\ raw_value = <<"0", "8", "1", "2", "-", "3", "4", "5", "6", "-", "7", "8", "9">> =>
          normalized = <<"+", "6", "2", "8", "1", "2", "3", "4", "5", "6", "7", "8", "9">>

Whitespace == {" "}

Punctuation == {"(", ")", "-", ".", "@", "|"}

C15_EmailValidIffAtThenDot ==
    EmailCalled =>
        IF IsNa(raw_value) \/ raw_value = <<>> THEN IsNa(normalized)
        ELSE LET s == Lower(Strip(raw_value))
             IN  normalized =
                    IF \E i \in 1..Len(s) : \E j \in (i + 1)..Len(s) : s[i] = "@" /\ s[j] = "."
                    THEN s ELSE Null

(***************************************************************************)
(* Claims about the composite keys (checked under KeySpec).                *)
(***************************************************************************)
\* Which identifiers a record has after normalization.
ShapeOf(id) ==
    IF NotNa(id.email) /\ NotNa(id.phone_number) THEN "both"
    ELSE IF NotNa(id.email) THEN "email"
    ELSE IF NotNa(id.phone_number) THEN "phone"
    ELSE "neither"

\* C16: the key is <email>|<phone> for both identifiers, <email>| for the
\* email only, |<phone> for the phone only and null for neither; the keys of
\* two records of different shapes differ, and two records with the same
\* identifiers present and equal have the same key.
C16_KeyShapesNeverCoincide ==
    keys_built =>
        /\ \A i \in {1, 2} :
              LET e == key_ids[i].email
                  p == key_ids[i].phone_number
                  k == row_keys[i]
              IN  /\ ShapeOf(key_ids[i]) = "both" =>
                        /\ Len(k) = Len(e) + 1 + Len(p)
                        /\ SubSeq(k, 1, Len(e)) = e
                        /\ k[Len(e) + 1] = "|"
                        /\ SubSeq(k, Len(e) + 2, Len(k)) = p
                  /\ ShapeOf(key_ids[i]) = "email" =>
                        /\ Len(k) = Len(e) + 1
                        /\ SubSeq(k, 1, Len(e)) = e
                        /\ k[Len(k)] = "|"
                  /\ ShapeOf(key_ids[i]) = "phone" =>
                        /\ Len(k) = Len(p) + 1
                        /\ k[1] = "|"
                        /\ Tail(k) = p
                  /\ ShapeOf(key_ids[i]) = "neither" => IsNa(k)
        /\ ShapeOf(key_ids[1]) # ShapeOf(key_ids[2]) => row_keys[1] # row_keys[2]
        /\ key_ids[1] = key_ids[2] => row_keys[1] = row_keys[2]

\* C16's case: an email-only record whose email ends like a full key, next
\* to the record with that email and phone.
C16_Witness ==
    /\ keys_built
    /\ key_ids[1].email = <<"a", "@", "x", ".", "c", "|", "+", "6", "2", "8", "1", "2", "3",
                            "4", "5", "6", "7", "8">>
    /\ IsNa(key_ids[1].phone_number)
    /\ key_ids[2].email = <<"a", "@", "x", ".", "c">>
    /\ key_ids[2].phone_number = <<"+", "6", "2", "8", "1", "2", "3", "4", "5", "6", "7", "8">>
    /\ row_keys[1] # row_keys[2]

(***************************************************************************)
(* Claims about the Conflict Resolver (checked under ResolverSpec).        *)
(***************************************************************************)
Resolved == Len(resolver_calls) >= 1 /\ ~resolve_raised

\* C3: for a column whose strategy is prefer_source the resolver acts as
\* `first` when the preferred source is the left side and as `last` when it
\* is the right side: the preferred source's value when it is non-null,
\* otherwise the other side's value.
C3_PreferSourceTakesPreferredSide ==
    (Resolved /\ resolution.strategy = "prefer_source") =>
        resolved = IF resolution.prefer_source = LeftSource
                   THEN (IF NotNa(left_value) THEN left_value ELSE right_value)
                   ELSE (IF NotNa(right_value) THEN right_value ELSE left_value)

\* C5: for all L and R, null included, resolving (L, R) with `first` gives
\* the value of resolving (R, L) with `last`, and the other way round;
\* `first` yields L unless L is null, then R; `last` yields R unless R is
\* null, then L.
C5_FirstLastSymmetry ==
    /\ (Resolved /\ resolution.strategy = "first") =>
          resolved = IF NotNa(left_value) THEN left_value ELSE right_value
    /\ (Resolved /\ resolution.strategy = "last") =>
          resolved = IF NotNa(right_value) THEN right_value ELSE left_value
    /\ (Len(resolver_calls) >= 2 /\ resolution.strategy \in {"first", "last"}) =>
          mirrored = resolved

\* C5's case: `first` on a null left cell and a present right cell, and the
\* mirrored `last` call on the swapped pair, both made.
C5_Witness ==
    /\ Len(resolver_calls) >= 2
    /\ resolution.strategy = "first"
    /\ IsNa(left_value)
    /\ NotNa(right_value)
    /\ resolved = right_value

\* C13: with strategy concat and separator s the resolved value is null
\* when L and R are both null, the string form of the non-null side when
\* one is null, the common string when the string forms of L and R are
\* equal, and otherwise string(L) + s + string(R), left first; "X" and "Y"
\* with " | " give "X | Y"; the result is one scalar (null or one string).
C13_ConcatenateJoinsLeftThenRight ==
    (Resolved /\ resolution.strategy = "concat") =>
        LET l == left_value
            r == right_value
            text(v) == IF v = <<"#", "1">> THEN <<"1">> ELSE v
        IN  /\ (IsNa(l) /\ IsNa(r)) => IsNa(resolved)
            /\ (IsNa(l) /\ NotNa(r)) => resolved = text(r)
            /\ (NotNa(l) /\ IsNa(r)) => resolved = text(l)
            /\ (NotNa(l) /\ NotNa(r) /\ text(l) = text(r)) => resolved = text(l)
            /\ (NotNa(l) /\ NotNa(r) /\ text(l) # text(r)) =>
                  resolved = text(l) \o resolution.separator \o text(r)
            /\ (l = <<"X">> /\ r = <<"Y">> /\ resolution.separator = <<" ", "|", " ">>) =>
                  resolved = <<"X", " ", "|", " ", "Y">>
            /\ ~IsNumber(resolved)

\* C13's case: concat of "X" and "Y" with the separator " | ".
C13_Witness ==
    /\ Resolved
    /\ resolution.strategy = "concat"
    /\ resolution.separator = <<" ", "|", " ">>
    /\ left_value = <<"X">>
    /\ right_value = <<"Y">>
    /\ resolved = <<"X", " ", "|", " ", "Y">>

(***************************************************************************)
(* Claims about the pairwise merge step (checked under MergeSpec).         *)
(***************************************************************************)
MergeReturned == merge_calls # <<>> /\ ~merge_step_raised

Max(a, b) == IF a >= b THEN a ELSE b

\* The sum over key values of (left rows with the key) x (right rows with
\* the key): the number of pairs of a left and a right row with equal keys.
\* A side without the merge-key column has no row with any key.
MatchingPairs ==
    IF MissingKeys(left_table, LayerMergeKeys) \/ MissingKeys(right_table, LayerMergeKeys)
    THEN {}
    ELSE {p \in (1..Len(left_table.rows)) \X (1..Len(right_table.rows)) :
            KeyOf(left_table.rows[p[1]], LayerMergeKeys)
                = KeyOf(right_table.rows[p[2]], LayerMergeKeys)}

\* C7 as claimed: for every L and R, an empty side or a side without the
\* merge-key column included, an inner step returns at most the sum over
\* key values of |L rows with the key| x |R rows with the key| rows, and an
\* outer step returns at least max(|L|, |R|) rows.
C7_MergeCardinalityBounds ==
    MergeReturned =>
        /\ merge_type = "inner" =>
              Len(merge_result.rows) <= Cardinality(MatchingPairs)
        /\ merge_type = "outer" =>
              Len(merge_result.rows) >= Max(Len(left_table.rows), Len(right_table.rows))

\* C7 as amended: the inner bound holds when both sides are non-empty and
\* both have the merge-key column (the step then joins); an inner step with
\* an empty side returns the other side unchanged, and with a key column
\* missing it returns L followed by R; the outer bound holds for all L, R.
C7_MergeCardinalityBoundsWhenJoined ==
    MergeReturned =>
        /\ (merge_type = "inner" /\ JoinRuns(left_table, right_table, LayerMergeKeys)) =>
              Len(merge_result.rows) <= Cardinality(MatchingPairs)
        /\ (merge_type = "inner" /\ left_table.rows = <<>>) => merge_result = right_table
        /\ (merge_type = "inner" /\ left_table.rows # <<>> /\ right_table.rows = <<>>) =>
              merge_result = left_table
        /\ (merge_type = "inner" /\ left_table.rows # <<>> /\ right_table.rows # <<>>
              /\ ~JoinRuns(left_table, right_table, LayerMergeKeys)) =>
              Len(merge_result.rows) = Len(left_table.rows) + Len(right_table.rows)
        /\ merge_type = "outer" =>
              Len(merge_result.rows) >= Max(Len(left_table.rows), Len(right_table.rows))

\* C7's case: an inner join of two rows on each side that all share one key
\* (four result rows), the product bound being met.
C7_Witness ==
    /\ MergeReturned
    /\ merge_type = "inner"
    /\ JoinRuns(left_table, right_table, LayerMergeKeys)
    /\ Len(left_table.rows) = 2
    /\ Len(merge_result.rows) = 4

\* Whether result row n has a left row / is a right-only row.
FromLeft(n) == merge_pairs[n][1] # 0

RightOnly(n) == merge_pairs[n][1] = 0

\* C8 as claimed: in the result of a pairwise merge the rows that come from
\* the left side appear first, in the left table's order, and the rows that
\* exist only on the right follow them (outer and right merge types only),
\* in the right table's order.
C8_LeftRowsFirstThenRightOnly ==
    MergeReturned =>
        /\ \A m, n \in 1..Len(merge_pairs) :
              m < n =>
                 /\ (FromLeft(m) /\ FromLeft(n)) => merge_pairs[m][1] <= merge_pairs[n][1]
                 /\ (RightOnly(m) /\ RightOnly(n)) => merge_pairs[m][2] < merge_pairs[n][2]
                 /\ ~(RightOnly(m) /\ FromLeft(n))
        /\ (JoinRuns(left_table, right_table, LayerMergeKeys)
              /\ merge_type \in {"inner", "left"}) =>
              \A n \in 1..Len(merge_pairs) : FromLeft(n)

\* C24: after a join of two non-empty tables that both have the merge
\* keys, every non-key column c of both sides is one column c of the result
\* and no column c_left or c_right is left; its value in a result row is the
\* resolver applied to the row's left and right values (null on a side the
\* row has no record of) with the strategy declared for c, or first when
\* none is declared; a column of one side only holds that side's value.
C24_OverlappingColumnsCollapsed ==
    (MergeReturned /\ JoinRuns(left_table, right_table, LayerMergeKeys)) =>
        LET L == left_table
            R == right_table
            lval(n, c) == IF merge_pairs[n][1] = 0 THEN Null ELSE L.rows[merge_pairs[n][1]][c]
            rval(n, c) == IF merge_pairs[n][2] = 0 THEN Null ELSE R.rows[merge_pairs[n][2]][c]
            declared(c) == IF c = "v" THEN resolution ELSE Resolution("first", LeftSource, "None")
        IN  /\ merge_result.cols = L.cols \cup R.cols
            /\ merge_result.cols \cap {"v_left", "v_right", "w_left", "w_right"} = {}
            /\ Len(merge_result.rows) = Len(merge_pairs)
            /\ \A n \in 1..Len(merge_result.rows) :
                  /\ \A c \in (L.cols \cap R.cols) \ {"k"} :
                        merge_result.rows[n][c]
                           = resolve_conflict(lval(n, c), rval(n, c), declared(c))
                  /\ \A c \in L.cols \ R.cols : merge_result.rows[n][c] = lval(n, c)
                  /\ \A c \in R.cols \ L.cols : merge_result.rows[n][c] = rval(n, c)

\* C24's case: an outer join under `last` for v of a left row with v and w
\* and a right row with v, w and the same key: v is the right value, w (no
\* strategy declared) the left value.
C24_Witness ==
    /\ MergeReturned
    /\ JoinRuns(left_table, right_table, LayerMergeKeys)
    /\ merge_type = "outer"
    /\ resolution.strategy = "last"
    /\ left_table.cols = {"k", "v", "w"}
    /\ right_table.cols = {"k", "v", "w"}
    /\ Len(merge_result.rows) = 1
    /\ merge_result.rows[1]["v"] = <<"y">>
    /\ merge_result.rows[1]["w"] = <<"x">>

(***************************************************************************)
(* Claims about the fold of a Merge layer (checked under FoldSpec).        *)
(***************************************************************************)
\* A step of the fold was taken.
FoldStepped == fold_pc > 2 \/ fold_raised

\* The source the last step merged into the accumulator.
FoldRight == prepared_sources[IF fold_raised THEN fold_pc ELSE fold_pc - 1]

\* A merge-key column is missing from T.
LacksKey(T) == \E n \in 1..Len(LayerMergeKeys) : LayerMergeKeys[n] \notin T.cols

\* C21: a step whose sides are both non-empty and of which a side lacks a
\* merge-key column raises nothing; for merge type left its result is L
\* unchanged, for inner, outer and right the rows of L followed by the rows
\* of R (|L| + |R| rows); the fold goes on to the next source.
C21_MissingKeyFallsBackWithoutRaising ==
    (FoldStepped /\ fold_left.rows # <<>> /\ FoldRight.rows # <<>>
        /\ (LacksKey(fold_left) \/ LacksKey(FoldRight))) =>
        LET L == fold_left
            R == FoldRight
            cell(T, r, c) == IF c \in T.cols THEN r[c] ELSE Null
        IN  /\ ~fold_raised
            /\ fold_type = "left" => fold_result = L
            /\ fold_type \in {"inner", "outer", "right"} =>
                  /\ Len(fold_result.rows) = Len(L.rows) + Len(R.rows)
                  /\ fold_result.cols = L.cols \cup R.cols
                  /\ \A i \in 1..Len(L.rows) :
                        \A c \in fold_result.cols :
                           fold_result.rows[i][c] = cell(L, L.rows[i], c)
                  /\ \A j \in 1..Len(R.rows) :
                        \A c \in fold_result.cols :
                           fold_result.rows[Len(L.rows) + j][c] = cell(R, R.rows[j], c)
            /\ fold_pc \in 3..(Len(prepared_sources) + 1)

\* C21's case: an inner fold of three sources whose second source lacks the
\* key column: the first step returned the two rows of each side, and the
\* third source is still to come.
C21_Witness ==
    /\ FoldStepped
    /\ ~fold_raised
    /\ fold_type = "inner"
    /\ Len(prepared_sources) = 3
    /\ fold_pc = 3
    /\ Len(fold_left.rows) = 2
    /\ Len(FoldRight.rows) = 2
    /\ LacksKey(FoldRight)
    /\ Len(fold_result.rows) = 4

\* C22: for every merge type, a step whose accumulator is empty returns the
\* next source's table unchanged, and a step whose next source is empty
\* returns the accumulator unchanged; nothing is joined or resolved in it (a
\* strategy that would raise does not), and the step does so whether or not
\* a merge-key column is missing.
C22_EmptySideReturnsOtherSide ==
    FoldStepped =>
        /\ fold_left.rows = <<>> => (~fold_raised /\ fold_result = FoldRight)
        /\ (fold_left.rows # <<>> /\ FoldRight.rows = <<>>) =>
              (~fold_raised /\ fold_result = fold_left)

\* C22's case: a left fold with an unknown strategy whose accumulator is
\* empty and whose next source has rows but no key column.
C22_Witness ==
    /\ FoldStepped
    /\ fold_type = "left"
    /\ fold_resolution.strategy = "newest"
    /\ fold_left = [cols |-> {"k", "v"}, rows |-> <<>>]
    /\ Len(FoldRight.rows) = 2
    /\ LacksKey(FoldRight)
    /\ fold_result = FoldRight

(***************************************************************************)
(* Claims about the preparation of a source (checked under PrepareSpec).   *)
(***************************************************************************)
\* C23: a column c of a source S is renamed to c_S exactly when c is listed
\* as exclusive, is not a merge key, does not start with `_` and is not
\* listed as mergeable; every other column keeps its name, and the rows and
\* their cell values are those of the source.
C23_SuffixOnlyExclusiveColumns ==
    prep_done =>
        LET exclusive(c) ==
                /\ c \in prep_layer.columns_to_keep_separate
                /\ \A n \in 1..Len(prep_layer.merge_keys) : prep_layer.merge_keys[n] # c
                /\ c # "_source"
                /\ c \notin prep_layer.columns_to_merge
            suffix == IF prep_source = "s1" THEN "_s1" ELSE "_s2"
            name(c) == IF exclusive(c) THEN c \o suffix ELSE c
        IN  /\ prep_out.cols = {name(c) : c \in prep_df.cols}
            /\ Len(prep_out.rows) = Len(prep_df.rows)
            /\ \A i \in 1..Len(prep_df.rows) :
                  \A c \in prep_df.cols : prep_out.rows[i][name(c)] = prep_df.rows[i][c]

\* C23's case: every column is listed as exclusive and v also as mergeable;
\* only w is renamed.
C23_Witness ==
    /\ prep_done
    /\ prep_source = "s2"
    /\ prep_df.cols = SourceColumns
    /\ Len(prep_df.rows) = 2
    /\ prep_layer.columns_to_keep_separate = SourceColumns
    /\ prep_layer.columns_to_merge = {"v"}
    /\ prep_out.cols = {"k", "v", "w_s2", "_source"}
    /\ prep_out.rows[2]["w_s2"] = <<"y", "2">>

(***************************************************************************)
(* Claims about the layer processors and the run (checked under RunSpec).  *)
(***************************************************************************)
\* The position of the layer the loop handled last (0: none yet).
LastLayer == IF stage = "aborted" THEN layer_pc ELSE layer_pc - 1

Aborted == stage = "aborted"

\* The number of rows of the first n frames of a list of sources.
RECURSIVE RowsOf(_, _, _)
RowsOf(srcs, data, n) ==
    IF n = 0 THEN 0 ELSE RowsOf(srcs, data, n - 1) + Len(data[srcs[n]].rows)

\* Whether the output of the last layer, a Union layer, is the concatenation
\* of its resolvable sources in declaration order and row order, every row
\* extended with null.  With `tagged`, a source that has no _source column
\* counts as having one that holds the source's name when the layer tags.
UnionIsConcatenation(tagged) ==
    LET layer == layers[LastLayer]
        out == all_data[layer.name]
        srcs == Found(layer.sources, before)
        tags(s) == tagged /\ layer.add_source_column /\ "_source" \notin before[s].cols
        colsOf(s) == before[s].cols \cup (IF tags(s) THEN {"_source"} ELSE {})
        cell(s, i, c) == IF c \in before[s].cols THEN before[s].rows[i][c]
                         ELSE IF c \in colsOf(s) THEN SourceText(s)
                         ELSE Null
    IN  /\ out.cols = UNION {colsOf(srcs[n]) : n \in 1..Len(srcs)}
        /\ Len(out.rows) = RowsOf(srcs, before, Len(srcs))
        /\ \A n \in 1..Len(srcs) :
              \A i \in 1..Len(before[srcs[n]].rows) :
                 out.rows[RowsOf(srcs, before, n - 1) + i]
                    = [c \in out.cols |-> cell(srcs[n], i, c)]

LastWasUnion == LastLayer >= 1 /\ layers[LastLayer].kind = "union"

\* C6 as claimed: the output of a Union layer is exactly the concatenation
\* of the tables of its resolvable sources, in declaration order and each
\* source's row order, every record extended with null for the columns it
\* lacks: the row count is the sum of the source row counts and the column
\* set the union of the source column sets.
C6_UnionIsConcatenationOfSources == LastWasUnion => UnionIsConcatenation(FALSE)

\* C6 as amended: the same of the source tables after provenance tagging:
\* when the layer has add_source_column on, a source without a _source
\* column first gains one that holds the source's name in every record.
C6_UnionIsConcatenationOfTaggedSources == LastWasUnion => UnionIsConcatenation(TRUE)

\* C6's case: a tagging Union layer over s2 (two rows, columns k and v, no
\* tag) and s1 (a row, columns k, w and its own tag).
C6_Witness ==
    /\ LastWasUnion
    /\ layers[LastLayer].sources = <<"s2", "s1">>
    /\ layers[LastLayer].add_source_column
    /\ {"s1", "s2"} \subseteq DOMAIN before
    /\ before["s1"].cols = {"k", "w", "_source"}
    /\ Len(before["s1"].rows) = 1
    /\ Len(before["s2"].rows) = 2
    /\ Len(all_data["u"].rows) = 3

NextLayer == layers[layer_pc]

LoopRunning == stage = "intermediate" /\ layer_pc <= Len(layers)

\* A merge layer named `m` over the staged sources s1 and s2, both found,
\* both with rows and both with the column v: its column v is resolved.
ResolvesV(layer, data) ==
    /\ layer.kind = "merge"
    /\ layer.sources = <<"s1", "s2">>
    /\ {"s1", "s2"} \subseteq DOMAIN data
    /\ \A s \in {"s1", "s2"} : data[s].rows # <<>> /\ {"k", "v"} \subseteq data[s].cols

\* A strategy that raises: an unrecognized name, or a custom resolver that
\* throws.
Throws(res) ==
    \/ res.strategy \notin {"first", "last", "prefer_source", "concat", "max", "min", "custom"}
    \/ res.strategy = "custom" /\ res.custom_fn \in {"None", "raises"}

\* C17: no output is written before every declared layer was processed
\* successfully.  A layer that raises a hard failure (fewer than 2 merge
\* sources, an unknown strategy or a custom resolver exception in a column
\* that is resolved) stops the run at that layer: its output is not stored,
\* the loop does not move on and no output is written.
C17_NoWriteUnlessEveryLayerSucceeded ==
    /\ written # <<>> =>
          /\ stage = "complete"
          /\ layer_pc = Len(layers) + 1
          /\ \A n \in 1..Len(layers) : layers[n].name \in DOMAIN all_data
    /\ (LastLayer >= 1 /\ layers[LastLayer].kind = "merge"
          /\ \/ Len(layers[LastLayer].sources) < 2
             \/ /\ ResolvesV(layers[LastLayer], before)
                /\ Throws(layers[LastLayer].conflict_resolution["v"])) => Aborted
    /\ Aborted =>
          /\ layer_pc \in 1..Len(layers)
          /\ NextLayer.kind = "merge"
          /\ Len(NextLayer.sources) < 2 \/ Throws(NextLayer.conflict_resolution["v"])
          /\ all_data = before
          /\ written = <<>>

\* C17's case: the first of two layers threw out of its custom resolver.
C17_Witness ==
    /\ Aborted
    /\ Len(layers) = 2
    /\ layer_pc = 1
    /\ layers[1].conflict_resolution["v"].strategy = "custom"
    /\ written = <<>>

\* C18: a Merge layer whose conflict resolutions contain an unrecognized
\* strategy name aborts the run when it is processed and stores no output,
\* whatever its source tables hold.
C18_UnknownStrategyAlwaysAborts ==
    (LastLayer >= 1 /\ layers[LastLayer].kind = "merge"
        /\ layers[LastLayer].conflict_resolution["v"].strategy \notin Strategies) =>
        /\ Aborted
        /\ all_data = before

\* C19: the turn of a Merge layer that declares fewer than 2 sources aborts
\* the run without looking any source up (no skip warning is printed, found
\* or not), without storing anything and without a write.
C19_TooFewSourcesAbortsBeforeReading ==
    [][(LoopRunning /\ NextLayer.kind = "merge" /\ Len(NextLayer.sources) < 2) =>
          /\ stage' = "aborted"
          /\ all_data' = all_data
          /\ warnings' = warnings
          /\ layer_pc' = layer_pc
          /\ written' = <<>>]_vars

\* C19's case: the run aborted at a one-source Merge layer whose source is
\* not in the namespace, and no warning was printed.
C19_Witness ==
    /\ Aborted
    /\ NextLayer.kind = "merge"
    /\ NextLayer.sources = <<"s1">>
    /\ "s1" \notin DOMAIN all_data
    /\ warnings = {}

\* C20: a Union layer with a declared source that is not in the namespace
\* does not raise: its output is the union of the declared sources that are
\* found, the empty table (no rows, no columns) when none is found, and the
\* loop goes on to the next layer.
C20_UnionSkipsAbsentSources ==
    (LastWasUnion /\ Skipped(layers[LastLayer], before) # {}) =>
        LET layer == layers[LastLayer]
            remaining == {layer.sources[n] : n \in 1..Len(layer.sources)} \cap DOMAIN before
        IN  /\ ~Aborted
            /\ layer_pc = LastLayer + 1
            /\ layer.name \in DOMAIN all_data
            /\ remaining = {} => all_data[layer.name] = [cols |-> {}, rows |-> <<>>]
            /\ remaining # {} => UnionIsConcatenation(TRUE)

\* C20's case: a Union layer whose first source was not found and whose
\* second source had two rows, which are its output; the loop went on.
C20_Witness ==
    /\ LastWasUnion
    /\ ~Aborted
    /\ layers[LastLayer].sources = <<"m", "s1">>
    /\ "m" \notin DOMAIN before
    /\ "s1" \in DOMAIN before
    /\ Len(before["s1"].rows) = 2
    /\ Len(all_data["u"].rows) = 2
    /\ layer_pc = LastLayer + 1

\* C25: in the output of a Union layer that tags provenance every record
\* carries in _source the name of the declared source it came from, except a
\* record that already had a tag, which keeps it; a Union layer that does
\* not tag adds no _source column.
C25_EveryRecordCarriesItsSource ==
    (LastWasUnion /\ Found(layers[LastLayer].sources, before) # <<>>) =>
        LET layer == layers[LastLayer]
            out == all_data[layer.name]
            srcs == Found(layer.sources, before)
            tagged(s, i) == "_source" \in before[s].cols /\ NotNa(before[s].rows[i]["_source"])
        IN  /\ layer.add_source_column =>
                \A n \in 1..Len(srcs) :
                   \A i \in 1..Len(before[srcs[n]].rows) :
                      /\ "_source" \in out.cols
                      /\ out.rows[RowsOf(srcs, before, n - 1) + i]["_source"]
                            = IF tagged(srcs[n], i) THEN before[srcs[n]].rows[i]["_source"]
                              ELSE SourceText(srcs[n])
            /\ ~layer.add_source_column =>
                  out.cols = UNION {before[srcs[n]].cols : n \in 1..Len(srcs)}

\* The tables the run staged: the namespace entries no layer declares.
StagedData ==
    [n \in DOMAIN all_data \ {layers[i].name : i \in 1..Len(layers)} |-> all_data[n]]

\* The namespace after the first n declared layers, each processed on the
\* namespace its predecessors left and stored under its own name.
RECURSIVE NamespaceAfter(_)
NamespaceAfter(n) ==
    IF n = 0 THEN StagedData
    ELSE LET data == NamespaceAfter(n - 1)
             layer == layers[n]
         IN  [x \in DOMAIN data \cup {layer.name} |->
                 IF x = layer.name THEN process_intermediate_layer(layer, data)
                 ELSE data[x]]

\* C26: the layers are processed one at a time in declaration order: the
\* namespace holds the outputs of exactly the layers processed so far, each
\* computed on the namespace its predecessors left (so a later layer that
\* names an earlier one reads its output), and the namespace a layer was
\* given holds no output of a layer declared after it.
C26_LayersRunInDeclarationOrder ==
    /\ layer_pc \in 1..(Len(layers) + 1)
    /\ all_data = NamespaceAfter(layer_pc - 1)
    /\ LastLayer >= 1 =>
          /\ before = NamespaceAfter(LastLayer - 1)
          /\ \A j \in LastLayer..Len(layers) :
                layers[j].name \in DOMAIN before =>
                   \E i \in 1..(LastLayer - 1) : layers[i].name = layers[j].name

\* A merge layer that names the union layer declared before it, and read
\* its records.
C26_Witness ==
    /\ Len(layers) = 2
    /\ layer_pc = 3
    /\ layers[1].kind = "union" /\ layers[1].sources = <<"s1", "s2">>
    /\ layers[2].kind = "merge" /\ layers[2].sources = <<"u", "s2">>
    /\ layers[2].merge_type = "inner"
    /\ "s1" \in DOMAIN before /\ "s2" \in DOMAIN before
    /\ Len(before["u"].rows) = 2
    /\ all_data["m"].rows # <<>>

\* C28: during one run every name in the namespace is written at most
\* once: a layer's output is stored under a name that is not yet in the
\* namespace (neither a staged table nor an earlier layer's output).
C28_NamesWrittenAtMostOnce ==
    [][(layer_pc' = layer_pc + 1) => layers[layer_pc].name \notin DOMAIN all_data]_vars

(***************************************************************************)
(* Claims about the frame objects of a layer.                              *)
(***************************************************************************)
\* The objects bound to a name of the namespace.
NamespaceObjects == {names[n] : n \in DOMAIN names}

\* C27: processing a Union or Merge layer leaves every table of the
\* namespace unchanged, the layer's own sources included, and the result
\* is a new object, none of the namespace's.
C27_ProcessingLeavesNamespaceUnchanged ==
    obj_done =>
        /\ \A n \in DOMAIN names : heap[names[n]] = heap_before[names[n]]
        /\ ~obj_raised =>
              /\ obj_result \in 1..Len(heap)
              /\ obj_result \notin NamespaceObjects

\* A tagging Union layer whose source has no _source column: the result is
\* tagged, the source is not.
C27_Witness ==
    /\ obj_done
    /\ obj_layer.kind = "union"
    /\ obj_layer.add_source_column
    /\ obj_layer.sources = <<"s1", "s2">>
    /\ "s2" \in DOMAIN names
    /\ heap[names["s2"]].rows # <<>>
    /\ "_source" \notin heap[names["s2"]].cols
    /\ "_source" \in heap[obj_result].cols

(***************************************************************************)
(* Claims about the Eduqat client.                                         *)
(***************************************************************************)
\* The items of the first n responses, in order.
RECURSIVE ItemsUpTo(_)
ItemsUpTo(n) == IF n = 0 THEN <<>> ELSE ItemsUpTo(n - 1) \o ItemsOf(responses[n])

\* The last response received is a page with fewer than page_limit items.
ShortPageReceived ==
    /\ ~SinglePage
    /\ responses # <<>>
    /\ Len(responses) = Len(requests)
    /\ Len(ItemsOf(responses[Len(responses)])) < page_limit

\* What C30 says of every state of a call without page and limit.
PagesInOrder ==
    ~SinglePage =>
        /\ \A n \in 1..Len(requests) :
              requests[n] = [endpoint |-> Endpoint(api_method),
                             params |-> [k \in {"page", "limit"} |->
                                            IF k = "page" THEN n ELSE 100]]
        /\ \A n \in 1..(Len(requests) - 1) :
              /\ n <= Len(responses)
              /\ Len(ItemsOf(responses[n])) >= 100
        /\ api_stage = "returned" =>
              /\ ShortPageReceived
              /\ api_result.items = ItemsUpTo(Len(responses))
              /\ api_result.count = Len(api_result.items)

\* C30: called without page and limit, the method requests the pages 1, 2,
\* 3, ... with limit 100, requests no page after a page with fewer than 100
\* items, and returns the items of all requested pages in page order with
\* count their number; once a page with fewer than 100 items has arrived
\* the call returns.
C30_PaginationStopsAtShortPage ==
    /\ []PagesInOrder
    /\ (ShortPageReceived ~> api_stage = "returned")

\* Three pages were requested: two full ones and a short last one.
C30_Witness ==
    /\ ~SinglePage
    /\ api_stage = "returned"
    /\ Len(requests) = 3
    /\ Len(ItemsOf(responses[1])) = 100
    /\ Len(ItemsOf(responses[3])) = 1
    /\ api_result.count > 200

=============================================================================
